---- MODULE Spec2Model ----
(***************************************************************************)
(* Model of the identifier parsing, the well codec, the registration of    *)
(* ROI tables, the illumination correction, the channel lists and the task *)
(* command-line interface of fractal-tasks-core.                           *)
(*                                                                         *)
(* Python strings are modelled as sequences of one-character strings, so   *)
(* that len(), indexing, slicing, count(), split() and join() are computed *)
(* character by character as the interpreter computes them.  A call of a   *)
(* function is a two-step run: the initial state holds the function name   *)
(* and its arguments (pc = "call"), the action of that function computes   *)
(* the outcome (a returned value or the raised exception) and moves to     *)
(* pc = "done".  The tasks apply_registration_to_ROI_tables and            *)
(* illumination_correction, define_omero_channels and run_fractal_task are *)
(* runs of several steps, one action per step.                             *)
(***************************************************************************)
EXTENDS Integers, Sequences, FiniteSets, TLC

VARIABLES pc, call, args, ret

\* The objects of a run of the task apply_registration_to_ROI_tables: the
\* Zarr store of the well, the dictionaries roi_tables and shifted_rois, the
\* data frames max_df and min_df, and the position of the loop over the
\* acquisitions.
VARIABLES store, roi_tables, max_df, min_df, shifted_rois, loop_i

regvars == <<store, roi_tables, max_df, min_df, shifted_rois, loop_i>>

\* The objects of a sequence of calls of illumination_correction by one
\* caller: the caller's dictionary dict_corr, the list of index windows of
\* the call in progress, the number of reads and writes of pixel data it has
\* done, the position of the caller in its list of components and the
\* position of the call in its loop over the regions.
VARIABLES dict_corr, list_indices, pixel_io, component_i, region_i

illumvars == <<dict_corr, list_indices, pixel_io, component_i, region_i>>

\* The objects of a sequence of calls of define_omero_channels: the caller's
\* list of channels, the local lists default_colormaps and omero_channels of
\* the call in progress, its position in the loop over the channels, and the
\* results of the calls that have returned.
VARIABLES channels, default_colormaps, omero_channels, channel_i, returned

chanvars == <<channels, default_colormaps, omero_channels, channel_i, returned>>

\* The objects of a process that runs run_fractal_task: the files it can
\* see, the number of calls of the task function and the exit status of the
\* process.
VARIABLES files, task_calls, exit_status

runvars == <<files, task_calls, exit_status>>

vars ==
  <<pc, call, args, ret, store, roi_tables, max_df, min_df, shifted_rois, loop_i,
    dict_corr, list_indices, pixel_io, component_i, region_i,
    channels, default_colormaps, omero_channels, channel_i, returned,
    files, task_calls, exit_status>>

\* No call of illumination_correction.
NoIllumination ==
  /\ dict_corr = <<>>
  /\ list_indices = <<>>
  /\ pixel_io = 0
  /\ component_i = 0
  /\ region_i = 0

\* No call of define_omero_channels.
NoChannels ==
  /\ channels = <<>>
  /\ default_colormaps = <<>>
  /\ omero_channels = <<>>
  /\ channel_i = 0
  /\ returned = <<>>

\* No process of run_fractal_task.
NoProcess ==
  /\ files = <<>>
  /\ task_calls = 0
  /\ exit_status = -1

\* No run of the registration task: its objects do not exist.
NoRegistration ==
  /\ store = <<>>
  /\ roi_tables = <<>>
  /\ max_df = <<>>
  /\ min_df = <<>>
  /\ shifted_rois = <<>>
  /\ loop_i = 0

\* No run of a task: only the call of a function and its outcome exist.
NoTask ==
  /\ NoRegistration
  /\ NoIllumination
  /\ NoChannels
  /\ NoProcess

(***************************************************************************)
(* Outcomes of a call: a returned value or a raised exception.             *)
(***************************************************************************)
Return(v) == [status |-> "ok", value |-> v]

Raise(e) == [status |-> e, value |-> <<>>]

NoResult == [status |-> "pending", value |-> <<>>]

(***************************************************************************)
(* Python string primitives.                                               *)
(***************************************************************************)

\* ord(c) for the characters the inputs are drawn from (ASCII code points).
Ord(c) ==
  CASE c = "#" -> 35
    [] c = "-" -> 45
    [] c = "." -> 46
    [] c = "/" -> 47
    [] c = "0" -> 48
    [] c = "1" -> 49
    [] c = "2" -> 50
    [] c = "3" -> 51
    [] c = "4" -> 52
    [] c = "5" -> 53
    [] c = "6" -> 54
    [] c = "7" -> 55
    [] c = "8" -> 56
    [] c = "9" -> 57
    [] c = "A" -> 65
    [] c = "B" -> 66
    [] c = "C" -> 67
    [] c = "F" -> 70
    [] c = "H" -> 72
    [] c = "K" -> 75
    [] c = "L" -> 76
    [] c = "N" -> 78
    [] c = "R" -> 82
    [] c = "S" -> 83
    [] c = "T" -> 84
    [] c = "Z" -> 90
    [] c = "_" -> 95
    [] c = "a" -> 97
    [] c = "b" -> 98
    [] c = "c" -> 99
    [] c = "d" -> 100
    [] c = "f" -> 102
    [] c = "i" -> 105
    [] c = "t" -> 116
    [] c = "<sup2>" -> 178

\* s[i:] with a 0-based Python index i >= 0 (never raises).
SliceFrom(s, i) == SubSeq(s, i + 1, Len(s))

\* s[:j] with a 0-based Python index j >= 0 (never raises).
SliceTo(s, j) == SubSeq(s, 1, IF j < Len(s) THEN j ELSE Len(s))

\* s[i:j] with 0-based Python indices 0 <= i <= j (never raises).
Slice(s, i, j) == SubSeq(s, i + 1, IF j < Len(s) THEN j ELSE Len(s))

\* s.count(c) for a one-character c.
Count(s, c) == Cardinality({i \in 1..Len(s) : s[i] = c})

\* The position (1-based) of the first c in s at or after position from,
\* or 0 when there is none: s.find(c, from - 1) + 1.
RECURSIVE Find(_, _, _)
Find(s, c, from) ==
  IF from > Len(s) THEN 0
  ELSE IF s[from] = c THEN from
  ELSE Find(s, c, from + 1)

\* s.split(c): the list of the pieces of s between the occurrences of c.
RECURSIVE Split(_, _)
Split(s, c) ==
  LET i == Find(s, c, 1)
  IN IF i = 0 THEN <<s>>
     ELSE <<SubSeq(s, 1, i - 1)>> \o Split(SubSeq(s, i + 1, Len(s)), c)

\* c.join(parts).
RECURSIVE Join(_, _)
Join(parts, c) ==
  IF Len(parts) = 0 THEN <<>>
  ELSE IF Len(parts) = 1 THEN parts[1]
  ELSE parts[1] \o <<c>> \o Join(Tail(parts), c)

\* Python's s < t on strings: lexicographic by code point, a proper prefix
\* comes first.
RECURSIVE StrLess(_, _)
StrLess(s, t) ==
  IF Len(t) = 0 THEN FALSE
  ELSE IF Len(s) = 0 THEN TRUE
  ELSE IF Ord(s[1]) # Ord(t[1]) THEN Ord(s[1]) < Ord(t[1])
  ELSE StrLess(Tail(s), Tail(t))

\* Python's p < q on (row, col) tuples of strings.
TupleLess(p, q) ==
  \/ StrLess(p[1], q[1])
  \/ p[1] = q[1] /\ StrLess(p[2], q[2])

(***************************************************************************)
(* cellvoyager/wells.py                                                    *)
(***************************************************************************)

\* get_filename_well_id with the two halves of a 1536-well row swapped in.
get_filename_well_id_swapped(row, col) ==
  IF Len(row) = 1 /\ Len(col) = 2 THEN Return(row \o col)
  ELSE IF Len(row) = 2 /\ Len(col) = 3
    THEN Return(<<row[2]>> \o SliceTo(col, 2) \o <<".">> \o <<row[1]>> \o <<col[3]>>)
  ELSE Raise("NotImplementedError")

\* get_filename_well_id that lets a one-letter row through with any column.
get_filename_well_id_lax(row, col) ==
  IF Len(row) = 1 THEN Return(row \o col)
  ELSE IF Len(row) = 2 /\ Len(col) = 3
    THEN Return(<<row[1]>> \o SliceTo(col, 2) \o <<".">> \o <<row[2]>> \o <<col[3]>>)
  ELSE Raise("NotImplementedError")

get_filename_well_id(row, col) ==
  IF Len(row) = 1 /\ Len(col) = 2 THEN Return(row \o col)
  ELSE IF Len(row) = 2 /\ Len(col) = 3
    THEN Return(<<row[1]>> \o SliceTo(col, 2) \o <<".">> \o <<row[2]>> \o <<col[3]>>)
  ELSE Raise("NotImplementedError")

\* The 1536-well branch of _extract_row_col_from_well_id: core[0], suffix[0]
\* and suffix[1] raise IndexError when the piece is too short, core[1:] never
\* raises.
ExtractDotted(well_id) ==
  LET parts == Split(well_id, ".")
      core == parts[1]
      suffix == parts[2]
  IN IF Len(core) < 1 \/ Len(suffix) < 2 THEN Raise("IndexError")
     ELSE Return(<< <<core[1]>> \o <<suffix[1]>>, SliceFrom(core, 1) \o <<suffix[2]>> >>)

\* _extract_row_col_from_well_id that does not count the dots.
_extract_row_col_from_well_id_nodots(well_id) ==
  IF Len(well_id) = 3 THEN Return(<< <<well_id[1]>>, Slice(well_id, 1, 3) >>)
  ELSE IF Len(well_id) = 6 /\ Count(well_id, ".") = 1 THEN ExtractDotted(well_id)
  ELSE Raise("NotImplementedError")

\* _extract_row_col_from_well_id that takes the column's last digit from the
\* first character of the suffix.
_extract_row_col_from_well_id_suffix0(well_id) ==
  IF Len(well_id) = 3 /\ Count(well_id, ".") = 0
    THEN Return(<< <<well_id[1]>>, Slice(well_id, 1, 3) >>)
  ELSE IF Len(well_id) = 6 /\ Count(well_id, ".") = 1
    THEN LET parts == Split(well_id, ".")
         IN IF Len(parts[1]) < 1 \/ Len(parts[2]) < 2 THEN Raise("IndexError")
            ELSE Return(<< <<parts[1][1]>> \o <<parts[2][1]>>,
                           SliceFrom(parts[1], 1) \o <<parts[2][1]>> >>)
  ELSE Raise("NotImplementedError")

_extract_row_col_from_well_id(well_id) ==
  IF Len(well_id) = 3 /\ Count(well_id, ".") = 0
    THEN Return(<< <<well_id[1]>>, Slice(well_id, 1, 3) >>)
  ELSE IF Len(well_id) = 6 /\ Count(well_id, ".") = 1 THEN ExtractDotted(well_id)
  ELSE Raise("NotImplementedError")

\* sorted() on a list of tuples: a stable insertion sort, x goes after every
\* element that is not greater than it.
RECURSIVE InsertSorted(_, _)
InsertSorted(x, sorted) ==
  IF Len(sorted) = 0 THEN <<x>>
  ELSE IF TupleLess(x, sorted[1]) THEN <<x>> \o sorted
  ELSE <<sorted[1]>> \o InsertSorted(x, Tail(sorted))

RECURSIVE SortedList(_)
SortedList(l) ==
  IF Len(l) = 0 THEN <<>>
  ELSE InsertSorted(l[Len(l)], SortedList(SubSeq(l, 1, Len(l) - 1)))

\* The list comprehension of generate_row_col_split: the outcome of decoding
\* the wells from left to right; the first exception ends it.
RECURSIVE DecodeAll(_)
DecodeAll(wells) ==
  IF Len(wells) = 0 THEN Return(<<>>)
  ELSE LET first == _extract_row_col_from_well_id(wells[1])
       IN IF first.status # "ok" THEN Raise(first.status)
          ELSE LET rest == DecodeAll(Tail(wells))
               IN IF rest.status # "ok" THEN Raise(rest.status)
                  ELSE Return(<<first.value>> \o rest.value)

\* generate_row_col_split that returns the decoded wells in input order.
generate_row_col_split_unsorted(wells) == DecodeAll(wells)

generate_row_col_split(wells) ==
  LET well_rows_columns == DecodeAll(wells)
  IN IF well_rows_columns.status # "ok" THEN Raise(well_rows_columns.status)
     ELSE Return(SortedList(well_rows_columns.value))

(***************************************************************************)
(* Inputs of the well codec.                                               *)
(***************************************************************************)
MaxRowLen == 3

MaxColLen == 4

MaxWellIdLen == 7

MaxWells == 3

SeqsUpTo(S, n) == UNION {[1..k -> S] : k \in 0..n}

\* Rows, columns and well ids are enumerated over a letter, a digit and the dot.
WellChars == {"A", "1", "."}

\* The (row, col) pairs of test_get_filename_well_id and of
\* test_not_implemented_filename_well_id.
RowColSamples ==
  { << <<"A">>, <<"0", "1">> >>,
    << <<"H">>, <<"0", "6">> >>,
    << <<"A", "a">>, <<"0", "1", "1">> >>,
    << <<"B", "c">>, <<"0", "2", "3">> >>,
    << <<"A">>, <<"1">> >>,
    << <<"A", "a">>, <<"1", "2">> >>,
    << <<"A", "a", "a">>, <<"1", "1">> >> }

RowColInputs ==
  (SeqsUpTo(WellChars, MaxRowLen) \X SeqsUpTo(WellChars, MaxColLen)) \cup RowColSamples

\* Well ids of test_generate_row_col_split and test_not_implemented_row_col_split,
\* and six-character ids whose dot is not the fourth character.
WellIdSamples ==
  { <<"B", "0", "3">>,
    <<"A", "0", "1">>,
    <<"B", "0", "7", ".", "a", "4">>,
    <<"B", "0", "5", ".", "b", "1">>,
    <<"A", "0", "1", ".", "a", "3">>,
    <<"A", "0", "1", "1">>,
    <<"A", ".", "1">>,
    <<"A">>,
    <<"A", ".", "0", "1", "a", "1">>,
    <<".", "A", "0", "1", "a", "1">> }

WellIdInputs == SeqsUpTo(WellChars, MaxWellIdLen) \cup WellIdSamples

WellListInputs == SeqsUpTo(WellIdSamples, MaxWells)

InitWells ==
  /\ pc = "call"
  /\ NoTask
  /\ ret = NoResult
  /\ \/ call = "get_filename_well_id" /\ args \in RowColInputs
     \/ call = "_extract_row_col_from_well_id" /\ args \in {<<w>> : w \in WellIdInputs}
     \/ call = "generate_row_col_split" /\ args \in {<<ws>> : ws \in WellListInputs}

Call_get_filename_well_id ==
  /\ pc = "call"
  /\ call = "get_filename_well_id"
  /\ ret' = get_filename_well_id(args[1], args[2])
  /\ pc' = "done"
  /\ UNCHANGED <<call, args>>
  /\ UNCHANGED <<regvars, illumvars, chanvars, runvars>>

Call_extract_row_col_from_well_id ==
  /\ pc = "call"
  /\ call = "_extract_row_col_from_well_id"
  /\ ret' = _extract_row_col_from_well_id(args[1])
  /\ pc' = "done"
  /\ UNCHANGED <<call, args>>
  /\ UNCHANGED <<regvars, illumvars, chanvars, runvars>>

Call_generate_row_col_split ==
  /\ pc = "call"
  /\ call = "generate_row_col_split"
  /\ ret' = generate_row_col_split(args[1])
  /\ pc' = "done"
  /\ UNCHANGED <<call, args>>
  /\ UNCHANGED <<regvars, illumvars, chanvars, runvars>>

NextWells ==
  \/ Call_get_filename_well_id
  \/ Call_extract_row_col_from_well_id
  \/ Call_generate_row_col_split

SpecWells == InitWells /\ [][NextWells]_vars

(***************************************************************************)
(* lib_parse_filename_metadata.py                                          *)
(***************************************************************************)

\* The characters [0-9] of the regular expression.
AsciiDigits == {"0", "1", "2", "3", "4", "5", "6", "7", "8", "9"}

\* The characters str.isdigit() accepts: the ASCII digits and the other
\* Unicode digits, of which "<sup2>" stands for U+00B2 (SUPERSCRIPT TWO).
DigitChars == AsciiDigits \cup {"<sup2>"}

\* s.isdigit(): s is not empty and holds digit characters only.
IsDigit(s) == Len(s) > 0 /\ \A i \in 1..Len(s) : s[i] \in DigitChars

\* The length of the date and time fields of an FMI plate prefix.
DateTimeLen == 6

RS == <<"R", "S">>

\* get_plate_name that takes the last field of a barcode prefix for the
\* barcode.
get_plate_name_last_field(plate_prefix) ==
  LET fields == Split(plate_prefix, "_")
  IN IF /\ Len(fields) = 3
        /\ Len(fields[2]) = DateTimeLen
        /\ Len(fields[3]) = DateTimeLen
        /\ IsDigit(fields[2])
        /\ IsDigit(fields[3])
       THEN Return(fields[3])
     ELSE IF /\ Len(fields) = 4
             /\ \A i \in 1..4 : Len(fields[i]) = DateTimeLen
             /\ \A i \in 1..4 : IsDigit(fields[i])
       THEN Return(RS \o fields[1] \o fields[2])
     ELSE Return(plate_prefix)

\* get_plate_name that names a failed-barcode plate after the imaging date
\* and time (the last two fields) instead of the scan date and time.
get_plate_name_img_date(plate_prefix) ==
  LET fields == Split(plate_prefix, "_")
  IN IF /\ Len(fields) = 3
        /\ Len(fields[2]) = DateTimeLen
        /\ Len(fields[3]) = DateTimeLen
        /\ IsDigit(fields[2])
        /\ IsDigit(fields[3])
       THEN Return(fields[1])
     ELSE IF /\ Len(fields) = 4
             /\ \A i \in 1..4 : Len(fields[i]) = DateTimeLen
             /\ \A i \in 1..4 : IsDigit(fields[i])
       THEN Return(RS \o fields[3] \o fields[4])
     ELSE Return(plate_prefix)

\* get_plate_name that takes three fields for a barcode prefix without
\* looking at the date and time fields.
get_plate_name_any_three(plate_prefix) ==
  LET fields == Split(plate_prefix, "_")
  IN IF Len(fields) = 3
       THEN Return(fields[1])
     ELSE IF /\ Len(fields) = 4
             /\ \A i \in 1..4 : Len(fields[i]) = DateTimeLen
             /\ \A i \in 1..4 : IsDigit(fields[i])
       THEN Return(RS \o fields[1] \o fields[2])
     ELSE Return(plate_prefix)

get_plate_name(plate_prefix) ==
  LET fields == Split(plate_prefix, "_")
  IN IF /\ Len(fields) = 3
        /\ Len(fields[2]) = DateTimeLen
        /\ Len(fields[3]) = DateTimeLen
        /\ IsDigit(fields[2])
        /\ IsDigit(fields[3])
       THEN Return(fields[1])
     ELSE IF /\ Len(fields) = 4
             /\ Len(fields[1]) = DateTimeLen
             /\ Len(fields[2]) = DateTimeLen
             /\ Len(fields[3]) = DateTimeLen
             /\ Len(fields[4]) = DateTimeLen
             /\ IsDigit(fields[1])
             /\ IsDigit(fields[2])
             /\ IsDigit(fields[3])
             /\ IsDigit(fields[4])
       THEN Return(RS \o fields[1] \o fields[2])
     ELSE Return(plate_prefix)

\* The position (1-based) of the last c in s, or 0: s.rfind(c) + 1.
RECURSIVE RFind(_, _, _)
RFind(s, c, from) ==
  IF from < 1 THEN 0
  ELSE IF s[from] = c THEN from
  ELSE RFind(s, c, from - 1)

\* Path(filename).name: the last component of the path, "" when the path has
\* none; empty and "." components do not count.
PathName(filename) ==
  LET parts == Split(filename, "/")
      kept == SelectSeq(parts, LAMBDA q : q # <<>> /\ q # <<".">>)
  IN IF Len(kept) = 0 THEN <<>> ELSE kept[Len(kept)]

\* Path(filename).with_suffix("").name: ValueError for a path with an empty
\* name; the suffix starts at the last dot of the name when that dot is
\* neither its first nor its last character.
PathStem(filename) ==
  LET name == PathName(filename)
      i == RFind(name, ".", Len(name))
  IN IF Len(name) = 0 THEN Raise("ValueError")
     ELSE IF 1 < i /\ i < Len(name) THEN Return(SubSeq(name, 1, i - 1))
     ELSE Return(name)

\* The length of the run of ASCII digits that starts at position from of s.
RECURSIVE DigitRun(_, _)
DigitRun(s, from) ==
  IF from > Len(s) \/ s[from] \notin AsciiDigits THEN 0
  ELSE 1 + DigitRun(s, from + 1)

\* The position (1-based) of the first ASCII digit of s at or after from, or 0.
RECURSIVE FindDigit(_, _)
FindDigit(s, from) ==
  IF from > Len(s) THEN 0
  ELSE IF s[from] \in AsciiDigits THEN from
  ELSE FindDigit(s, from + 1)

\* re.split(r"([0-9]+)", s): the pieces of s between its maximal digit runs,
\* with the digit runs kept, so pieces and runs alternate and the list starts
\* and ends with a (possibly empty) piece.
RECURSIVE ReSplitDigits(_)
ReSplitDigits(s) ==
  LET i == FindDigit(s, 1)
      n == DigitRun(s, i)
  IN IF i = 0 THEN <<s>>
     ELSE <<SubSeq(s, 1, i - 1), SubSeq(s, i, i + n - 1)>>
            \o ReSplitDigits(SubSeq(s, i + n, Len(s)))

\* The number of pieces of a metadata token with six key/value pairs.
MetadataLen == 13

\* The fields a filename needs: plate prefix, well and metadata token.
MinFilenameFields == 3

KeyPlatePrefix == <<"p", "l", "a", "t", "e", "_", "p", "r", "e", "f", "i", "x">>

KeyPlate == <<"p", "l", "a", "t", "e">>

KeyWell == <<"w", "e", "l", "l">>

\* output[key] = value on a dictionary held as a function from keys to values.
DictSet(d, key, value) == (key :> value) @@ d

\* str(int(value)): the digit run without its leading zeros.
RECURSIVE StripZeros(_)
StripZeros(value) ==
  IF Len(value) > 1 /\ value[1] = "0" THEN StripZeros(Tail(value)) ELSE value

\* The loop of parse_filename storing each value as the number it spells.
RECURSIVE FillOutput_int(_, _, _)
FillOutput_int(output, metadata, ind) ==
  IF 2 * ind + 1 > Len(metadata) THEN Return(output)
  ELSE LET key == metadata[2 * ind + 1]
           value == metadata[2 * ind + 2]
       IN IF IsDigit(key) \/ ~IsDigit(value) THEN Raise("ValueError")
          ELSE FillOutput_int(DictSet(output, key, StripZeros(value)), metadata, ind + 1)

\* The loop of parse_filename over the key/value pairs from pair ind on
\* (0-based): ValueError at the first pair whose key is numeric or whose
\* value is not, else the dictionary with every pair assigned in order.
RECURSIVE FillOutput(_, _, _)
FillOutput(output, metadata, ind) ==
  IF 2 * ind + 1 > Len(metadata) THEN Return(output)
  ELSE LET key == metadata[2 * ind + 1]
           value == metadata[2 * ind + 2]
       IN IF IsDigit(key) \/ ~IsDigit(value) THEN Raise("ValueError")
          ELSE FillOutput(DictSet(output, key, value), metadata, ind + 1)

\* parse_filename that asks for two fields only.
parse_filename_two_fields(filename) ==
  LET stem == PathStem(filename)
      filename_fields == Split(stem.value, "_")
      n == Len(filename_fields)
      plate_prefix == Join(SubSeq(filename_fields, 1, n - 2), "_")
      base == DictSet(DictSet(DictSet(<<>>, KeyPlatePrefix, plate_prefix),
                              KeyPlate, get_plate_name(plate_prefix).value),
                      KeyWell, filename_fields[n - 1])
      metadata == ReSplitDigits(filename_fields[n])
  IN IF stem.status # "ok" THEN Raise(stem.status)
     ELSE IF n < MinFilenameFields - 1 THEN Raise("ValueError")
     ELSE IF metadata[Len(metadata)] # <<>> \/ Len(metadata) # MetadataLen
       THEN Raise("ValueError")
     ELSE FillOutput(base, SubSeq(metadata, 1, Len(metadata) - 1), 0)

\* parse_filename that accepts any number of key/value pairs.
parse_filename_any_pairs(filename) ==
  LET stem == PathStem(filename)
      filename_fields == Split(stem.value, "_")
      n == Len(filename_fields)
      plate_prefix == Join(SubSeq(filename_fields, 1, n - 2), "_")
      base == DictSet(DictSet(DictSet(<<>>, KeyPlatePrefix, plate_prefix),
                              KeyPlate, get_plate_name(plate_prefix).value),
                      KeyWell, filename_fields[n - 1])
      metadata == ReSplitDigits(filename_fields[n])
  IN IF stem.status # "ok" THEN Raise(stem.status)
     ELSE IF n < MinFilenameFields THEN Raise("ValueError")
     ELSE IF metadata[Len(metadata)] # <<>> THEN Raise("ValueError")
     ELSE FillOutput(base, SubSeq(metadata, 1, Len(metadata) - 1), 0)

parse_filename(filename) ==
  LET stem == PathStem(filename)
      filename_fields == Split(stem.value, "_")
      n == Len(filename_fields)
      plate_prefix == Join(SubSeq(filename_fields, 1, n - 2), "_")
      base == DictSet(DictSet(DictSet(<<>>, KeyPlatePrefix, plate_prefix),
                              KeyPlate, get_plate_name(plate_prefix).value),
                      KeyWell, filename_fields[n - 1])
      metadata == ReSplitDigits(filename_fields[n])
  IN IF stem.status # "ok" THEN Raise(stem.status)
     ELSE IF n < MinFilenameFields THEN Raise("ValueError")
     ELSE IF metadata[Len(metadata)] # <<>> \/ Len(metadata) # MetadataLen
       THEN Raise("ValueError")
     ELSE FillOutput(base, SubSeq(metadata, 1, Len(metadata) - 1), 0)

(***************************************************************************)
(* Inputs of the filename parser.                                          *)
(***************************************************************************)
MaxPrefixFields == 4

MaxFilenamePrefixFields == 3

Date1 == <<"2", "1", "0", "4", "1", "6">>

Time1 == <<"1", "6", "4", "8", "2", "8">>

\* Fields a plate prefix is joined from: a date, a time, five digits, seven
\* digits, six characters of which one is a letter, six digit characters of
\* which one is not ASCII, a barcode and the empty field.
PlateFieldSamples ==
  { Date1,
    Time1,
    <<"2", "1", "0", "4", "1">>,
    <<"2", "1", "0", "4", "1", "6", "4">>,
    <<"2", "1", "0", "4", "1", "A">>,
    <<"2", "1", "0", "4", "1", "<sup2>">>,
    <<"N", "A", "R", "0", "0", "5">>,
    <<>> }

NonEmptySeqsUpTo(S, n) == UNION {[1..k -> S] : k \in 1..n}

\* The plate prefixes of files f2 and f3 of
\* test_parse_metadata_from_image_filename.
PlatePrefixSamples ==
  { <<"2", "1", "0", "3", "0", "5", "N", "A", "R", "0", "0", "5", "A", "A", "N", "_",
      "2", "1", "0", "4", "1", "6", "_", "1", "6", "4", "8", "2", "8">>,
    <<"2", "2", "0", "3", "0", "4", "_", "1", "7", "2", "5", "4", "5", "_",
      "2", "2", "0", "3", "0", "4", "_", "1", "7", "5", "5", "5", "7">> }

PlatePrefixInputs ==
  {Join(fields, "_") : fields \in NonEmptySeqsUpTo(PlateFieldSamples, MaxPrefixFields)}
    \cup PlatePrefixSamples

\* Well labels and metadata tokens: six pairs, seven pairs, a trailing
\* letter, a leading digit, a repeated key, the key "plate" and a key that is
\* a non-ASCII digit.
TailSamples ==
  { <<"B", "0", "3">>,
    <<"H", "1", "2", ".", "d", "4">>,
    <<"T", "1", "F", "2", "L", "3", "A", "0", "4", "Z", "5", "C", "6">>,
    <<"T", "1", "F", "2", "L", "3", "A", "0", "4", "Z", "5", "C", "6", "K", "7">>,
    <<"T", "1", "F", "2", "L", "3", "A", "0", "4", "Z", "5", "C">>,
    <<"1", "F", "2", "L", "3", "A", "0", "4", "Z", "5", "C", "6">>,
    <<"T", "1", "F", "2", "L", "3", "A", "0", "4", "Z", "5", "T", "6">>,
    <<"p", "l", "a", "t", "e", "1", "F", "2", "L", "3", "A", "0", "4", "Z", "5", "C", "6">>,
    <<"T", "1", "F", "2", "L", "3", "A", "0", "4", "Z", "5", "<sup2>", "6">> }

FilenamePrefixSamples == {Date1, <<"N", "A", "R", "0", "0", "5">>}

\* Directory and extension around the stem.
WrapSamples ==
  { << <<>>, <<".", "t", "i", "f">> >>,
    << <<"d", "/">>, <<".", "t", "i", "f">> >>,
    << <<>>, <<>> >> }

\* The last fields of a filename: none, one, or two.
TailInputs ==
  {<<>>} \cup {<<t>> : t \in TailSamples} \cup (TailSamples \X TailSamples)

FilenameInputs ==
  { w[1] \o Join(prefix \o tail, "_") \o w[2] :
      w \in WrapSamples,
      prefix \in SeqsUpTo(FilenamePrefixSamples, MaxFilenamePrefixFields),
      tail \in TailInputs }

InitFilename ==
  /\ pc = "call"
  /\ NoTask
  /\ ret = NoResult
  /\ \/ call = "get_plate_name" /\ args \in {<<p>> : p \in PlatePrefixInputs}
     \/ call = "parse_filename" /\ args \in {<<f>> : f \in FilenameInputs}

Call_get_plate_name ==
  /\ pc = "call"
  /\ call = "get_plate_name"
  /\ ret' = get_plate_name(args[1])
  /\ pc' = "done"
  /\ UNCHANGED <<call, args>>
  /\ UNCHANGED <<regvars, illumvars, chanvars, runvars>>

Call_parse_filename ==
  /\ pc = "call"
  /\ call = "parse_filename"
  /\ ret' = parse_filename(args[1])
  /\ pc' = "done"
  /\ UNCHANGED <<call, args>>
  /\ UNCHANGED <<regvars, illumvars, chanvars, runvars>>

NextFilename ==
  \/ Call_get_plate_name
  \/ Call_parse_filename

SpecFilename == InitFilename /\ [][NextFilename]_vars

(***************************************************************************)
(* tasks/apply_registration_to_ROI_tables.py                               *)
(*                                                                         *)
(* A ROI table (AnnData) is a record: obs is the list of ROI names, rows   *)
(* the list of its rows in the same order; a row holds the position pos    *)
(* and the extent len as (z, y, x) vectors of micrometers and, when the    *)
(* table has the translation columns (has_tr), the translation tr.  A data *)
(* frame is a record of its index and its rows of values.                  *)
(***************************************************************************)

\* A cell of an object-dtype array: NaN or a number.
NaN == [nan |-> TRUE, v |-> 0]

Num(x) == [nan |-> FALSE, v |-> x]

\* float(cell) of a cell that holds a number.
Float(cell) == cell.v

\* np.maximum and np.minimum on two cells of object dtype: a if a >= b else b,
\* a if a <= b else b; every comparison with NaN is false.
ObjectMaximum(a, b) == IF ~a.nan /\ ~b.nan /\ a.v >= b.v THEN a ELSE b

ObjectMinimum(a, b) == IF ~a.nan /\ ~b.nan /\ a.v <= b.v THEN a ELSE b

\* pd.DataFrame(index=..., columns=...): a frame of NaN of the shape of df.
EmptyFrame(df) ==
  [index |-> df.index,
   values |-> [r \in 1..Len(df.values) |-> [a \in 1..3 |-> NaN]]]

\* pd.DataFrame(np.maximum(acc.values, table.values), index=acc.index) and
\* the same with np.minimum: cell by cell, by position.
MaximumFrame(acc, table) ==
  [index |-> acc.index,
   values |-> [r \in 1..Len(acc.values) |->
                 [a \in 1..3 |-> ObjectMaximum(acc.values[r][a], Num(table.values[r][a]))]]]

\* The minimum computed with np.maximum.
MinimumFrame_with_maximum(acc, table) ==
  [index |-> acc.index,
   values |-> [r \in 1..Len(acc.values) |->
                 [a \in 1..3 |-> ObjectMaximum(acc.values[r][a], Num(table.values[r][a]))]]]

MinimumFrame(acc, table) ==
  [index |-> acc.index,
   values |-> [r \in 1..Len(acc.values) |->
                 [a \in 1..3 |-> ObjectMinimum(acc.values[r][a], Num(table.values[r][a]))]]]

\* The loop of calculate_min_max_across_dfs over the tables from table k on.
RECURSIVE FoldMaximum(_, _, _)
FoldMaximum(acc, tables_list, k) ==
  IF k > Len(tables_list) THEN acc
  ELSE FoldMaximum(MaximumFrame(acc, tables_list[k]), tables_list, k + 1)

RECURSIVE FoldMinimum(_, _, _)
FoldMinimum(acc, tables_list, k) ==
  IF k > Len(tables_list) THEN acc
  ELSE FoldMinimum(MinimumFrame(acc, tables_list[k]), tables_list, k + 1)

\* A frame of zeros of the shape of df.
ZeroFrame(df) ==
  [index |-> df.index,
   values |-> [r \in 1..Len(df.values) |-> [a \in 1..3 |-> Num(0)]]]

\* calculate_min_max_across_dfs that starts both frames from zeros.
calculate_min_max_across_dfs_zero_start(tables_list) ==
  IF Len(tables_list) = 0 THEN Raise("IndexError")
  ELSE Return(<<FoldMaximum(ZeroFrame(tables_list[1]), tables_list, 1),
                FoldMinimum(ZeroFrame(tables_list[1]), tables_list, 1)>>)

\* calculate_min_max_across_dfs: (max_df, min_df); tables_list[0] raises
\* IndexError on an empty list.
calculate_min_max_across_dfs(tables_list) ==
  IF Len(tables_list) = 0 THEN Raise("IndexError")
  ELSE Return(<<FoldMaximum(EmptyFrame(tables_list[1]), tables_list, 1),
                FoldMinimum(EmptyFrame(tables_list[1]), tables_list, 1)>>)

\* The position of the first row of label roi in an index, 0 when absent.
RECURSIVE IndexOf(_, _, _)
IndexOf(index, roi, from) ==
  IF from > Len(index) THEN 0
  ELSE IF index[from] = roi THEN from
  ELSE IndexOf(index, roi, from + 1)

\* float(df.loc[roi, column]) for the three translation columns.
Loc(df, roi) ==
  LET row == df.values[IndexOf(df.index, roi, 1)]
  IN <<Float(row[1]), Float(row[2]), Float(row[3])>>

\* roi_table.to_df().loc[:, translation_columns]
TranslationFrame(roi_table) ==
  [index |-> roi_table.obs,
   values |-> [r \in 1..Len(roi_table.rows) |-> roi_table.rows[r].tr]]

\* The loop body with the shifts of the y column used for the x column.
ShiftRow_y_for_x(row, max_shift, min_shift) ==
  [pos |-> <<row.pos[1] + max_shift[1] - row.tr[1],
             row.pos[2] + max_shift[2] - row.tr[2],
             row.pos[3] + max_shift[2] - row.tr[3]>>,
   len |-> <<row.len[1] - max_shift[1] + min_shift[1],
             row.len[2] - max_shift[2] + min_shift[2],
             row.len[3] - max_shift[2] + min_shift[2]>>,
   tr |-> row.tr]

\* The loop body without the subtraction of the table's own translation.
ShiftRow_without_own_shift(row, max_shift, min_shift) ==
  [pos |-> <<row.pos[1] + max_shift[1],
             row.pos[2] + max_shift[2],
             row.pos[3] + max_shift[3]>>,
   len |-> <<row.len[1] - max_shift[1] + min_shift[1],
             row.len[2] - max_shift[2] + min_shift[2],
             row.len[3] - max_shift[3] + min_shift[3]>>,
   tr |-> row.tr]

\* One pass of the loop body of apply_registration_to_single_ROI_table on the
\* rows of label roi: lines 272-302.
ShiftRow(row, max_shift, min_shift) ==
  [pos |-> <<row.pos[1] + max_shift[1] - row.tr[1],
             row.pos[2] + max_shift[2] - row.tr[2],
             row.pos[3] + max_shift[3] - row.tr[3]>>,
   len |-> <<row.len[1] - max_shift[1] + min_shift[1],
             row.len[2] - max_shift[2] + min_shift[2],
             row.len[3] - max_shift[3] + min_shift[3]>>,
   tr |-> row.tr]

ShiftRoi(table, max_frame, min_frame, roi) ==
  [table EXCEPT !.rows =
     [r \in 1..Len(table.rows) |->
        IF table.obs[r] = roi
          THEN ShiftRow(table.rows[r], Loc(max_frame, roi), Loc(min_frame, roi))
          ELSE table.rows[r]]]

\* The loop of apply_registration_to_single_ROI_table over rois from k on.
RECURSIVE ShiftRois(_, _, _, _, _)
ShiftRois(table, max_frame, min_frame, rois, k) ==
  IF k > Len(rois) THEN table
  ELSE ShiftRois(ShiftRoi(table, max_frame, min_frame, rois[k]),
                 max_frame, min_frame, rois, k + 1)

\* apply_registration_to_single_ROI_table without the deepcopy: the loop
\* writes into the table that was passed in.
apply_registration_to_single_ROI_table_in_place(roi_table, max_frame, min_frame, rois) ==
  [arg |-> ShiftRois(roi_table, max_frame, min_frame, rois, 1),
   result |-> ShiftRois(roi_table, max_frame, min_frame, rois, 1)]

\* apply_registration_to_single_ROI_table: the table it returns (result) and
\* the table that was passed in as it is after the call (arg); the loop
\* works on a deep copy.
apply_registration_to_single_ROI_table(roi_table, max_frame, min_frame, rois) ==
  [arg |-> roi_table,
   result |-> ShiftRois(roi_table, max_frame, min_frame, rois, 1)]

\* An exception with the details of its message.
RaiseMsg(e, details) == [status |-> e, value |-> details]

\* get_acquisition_paths: the acquisition indices of the images of the well,
\* in order.  An image is modelled by its acquisition index, -1 when it has
\* no "acquisition" key; its path is the index.
RECURSIVE get_acquisition_paths(_, _, _)
get_acquisition_paths(images, k, acquisition_dict) ==
  IF k > Len(images) THEN Return(acquisition_dict)
  ELSE IF images[k] = -1 THEN Raise("ValueError")
  ELSE IF \E j \in 1..Len(acquisition_dict) : acquisition_dict[j] = images[k]
    THEN Raise("NotImplementedError")
  ELSE get_acquisition_paths(images, k + 1, Append(acquisition_dict, images[k]))

\* add_zero_translation_columns
add_zero_translation_columns(ad_table) ==
  IF ad_table.has_tr THEN Raise("ValueError")
  ELSE Return([obs |-> ad_table.obs,
               rows |-> [r \in 1..Len(ad_table.rows) |->
                           [ad_table.rows[r] EXCEPT !.tr = <<0, 0, 0>>]],
               has_tr |-> TRUE])

\* The smallest value of a non-empty set of integers.
SetMin(S) == CHOOSE m \in S : \A x \in S : m <= x

\* reset_origin: a copy of the table with the smallest position of each axis
\* moved to zero.
reset_origin(ROI_table) ==
  LET origin == [a \in 1..3 |->
                   SetMin({ROI_table.rows[r].pos[a] : r \in 1..Len(ROI_table.rows)})]
  IN [ROI_table EXCEPT !.rows =
        [r \in 1..Len(ROI_table.rows) |->
           [ROI_table.rows[r] EXCEPT !.pos =
              [a \in 1..3 |-> ROI_table.rows[r].pos[a] - origin[a]]]]]

\* "registered_"
RegisteredPrefix == <<"r", "e", "g", "i", "s", "t", "e", "r", "e", "d", "_">>

\* Lines 81-82: the name of the new table; None and "" give the default.
NewRoiTableName(roi_table, new_roi_table) ==
  IF Len(new_roi_table) = 0 THEN RegisteredPrefix \o roi_table ELSE new_roi_table

\* Lines 102-123: the loop that collects the tables of the acquisitions from
\* the k-th on; tables maps the acquisitions read so far to their tables.
RECURSIVE CollectTables(_, _, _, _, _, _)
CollectTables(disk, acqs, roi_table, reference_cycle, k, tables) ==
  IF k > Len(acqs) THEN Return(tables)
  ELSE
    LET acq == acqs[k]
        read == disk[acq].tables[roi_table].elem
        curr == IF acq = reference_cycle
                  THEN add_zero_translation_columns(read)
                  ELSE Return(read)
    IN IF curr.status # "ok" THEN curr
       ELSE IF ~curr.value.has_tr
         THEN RaiseMsg("ValueError", [message |-> "does not contain the translation columns", acq |-> acq])
       ELSE CollectTables(disk, acqs, roi_table, reference_cycle, k + 1,
                          (acq :> curr.value) @@ tables)

\* Lines 139-143: the first acquisition, in the order of the dictionary,
\* whose index differs from rois; comparing two indexes of different lengths
\* raises inside pandas.
RECURSIVE CheckRois(_, _, _, _)
CheckRois(tables, acqs, rois, k) ==
  IF k > Len(acqs) THEN Return(<<>>)
  ELSE
    LET index == tables[acqs[k]].obs
    IN IF Len(index) # Len(rois)
         THEN RaiseMsg("ValueError", [message |-> "Lengths must match to compare"])
       ELSE IF \E r \in 1..Len(rois) : index[r] # rois[r]
         THEN RaiseMsg("ValueError", [message |-> "does not contain the same ROIs", acq |-> acqs[k]])
       ELSE CheckRois(tables, acqs, rois, k + 1)

\* write_elem of a table into a group: the element with the attributes of
\* the AnnData encoding.
WrittenTable(table) ==
  [elem |-> table,
   attrs |-> ("encoding-type" :> "anndata") @@ ("encoding-version" :> "0.1.0")]

\* Lines 165-170 on the group of tables of one acquisition: the new table is
\* written, its name is appended to the list of tables, and the attribute
\* "type" of the table named roi_table is set.
WriteRegisteredTable(group_tables, roi_table, new_roi_table, table) ==
  LET written == [group_tables EXCEPT
                    !.tables = (new_roi_table :> WrittenTable(table)) @@ group_tables.tables,
                    !.listed = group_tables.listed \o <<new_roi_table>>]
  IN [written EXCEPT
        !.tables[roi_table].attrs =
           ("type" :> "ngff:region_table") @@ written.tables[roi_table].attrs]

\* The acquisitions of the well of a run of the task.
AcquisitionDict == get_acquisition_paths(args.images, 1, <<>>)

\* The name under which the run writes the registered tables.
NewRoiTable == NewRoiTableName(args.roi_table, args.new_roi_table)

(***************************************************************************)
(* Inputs of the registration task: wells of up to MaxCycles acquisitions. *)
(***************************************************************************)

MaxCycles == 3

FOV_ROI_table == <<"F", "O", "V", "_", "R", "O", "I", "_", "t", "a", "b", "l", "e">>

\* A value of the argument new_roi_table; the empty string stands for None.
NewRoiTableInputs == {<<>>, <<"a", "l", "i", "g", "n", "e", "d">>}

\* Lists of ROI names of a table: the same names in two orders, a shorter
\* list and a list with another name.
NameSeqs ==
  {<<"FOV_1", "FOV_2">>, <<"FOV_2", "FOV_1">>, <<"FOV_1">>, <<"FOV_1", "FOV_3">>}

\* The position of a ROI in a grid of tiles of 100 x 100 micrometers.
TilePos(roi) ==
  CASE roi = "FOV_1" -> <<0, 0, 0>>
    [] roi = "FOV_2" -> <<0, 0, 100>>
    [] roi = "FOV_3" -> <<0, 100, 0>>

\* Rows on disk of a table whose stage origin is not at zero: the same
\* geometry in every acquisition, or a geometry that depends on the
\* acquisition.
GeomSamples == {"same", "differ"}

DiskRow(geom, acq, roi, tr) ==
  IF geom = "same"
    THEN [pos |-> <<TilePos(roi)[1], TilePos(roi)[2] + 10, TilePos(roi)[3] + 20>>,
          len |-> <<10, 100, 100>>,
          tr |-> tr]
    ELSE [pos |-> <<TilePos(roi)[1] * (1 + acq) + acq,
                    TilePos(roi)[2] * (1 + acq) + 10 * acq,
                    TilePos(roi)[3] * (1 + acq) + 20 * acq>>,
          len |-> <<10, 100 - acq, 100 + acq>>,
          tr |-> tr]

\* Translations (z, y, x) of a ROI measured by the registration; the last
\* one is larger along z than the z-extent of a ROI.
TrSamples == {<<0, 0, 5>>, <<-1, 2, -3>>, <<1, -2, 3>>, <<11, 0, 0>>}

\* The translations of the rows of a table whose first ROI has translation
\* tr: the ROIs that follow have its values on other axes, so that the ROIs
\* of a table differ in their shifts.
RowTr(tr, r) == IF r = 1 THEN tr ELSE <<tr[3], tr[1], tr[2]>>

\* The table roi_table as the converter and the registration left it on
\* disk, with the attributes of a ROI table.
DiskTable(geom, acq, names, trs, has_tr) ==
  [elem |-> [obs |-> names,
             rows |-> [r \in 1..Len(names) |->
                         DiskRow(geom, acq, names[r], IF has_tr THEN trs[r] ELSE <<>>)],
             has_tr |-> has_tr],
   attrs |-> ("type" :> "roi_table") @@ ("fractal_table_version" :> "1")]

\* The group of tables of one acquisition.
DiskGroup(table) ==
  [tables |-> (FOV_ROI_table :> table), listed |-> <<FOV_ROI_table>>]

\* The images 0 .. n-1 of a well.
Images(n) == [k \in 1..n |-> k - 1]

TaskArgs(images, reference_cycle, new_roi_table, disk) ==
  [images |-> images, roi_table |-> FOV_ROI_table,
   reference_cycle |-> reference_cycle, new_roi_table |-> new_roi_table,
   disk |-> disk]

\* Wells whose acquisitions list their ROIs differently.
NameInputs ==
  UNION {UNION {{TaskArgs(Images(n), reference_cycle, new_roi_table,
                   [acq \in 0..(n - 1) |->
                      DiskGroup(DiskTable("same", acq, names[acq],
                                          [r \in 1..2 |-> <<0, 0, 5>>],
                                          acq # reference_cycle))]) :
                   reference_cycle \in 0..(n - 1), new_roi_table \in NewRoiTableInputs} :
                names \in [0..(n - 1) -> NameSeqs]} :
         n \in 1..MaxCycles}

\* Wells with the same ROIs in every acquisition, with one translation per
\* acquisition for the first ROI.
ShiftInputs ==
  UNION {UNION {UNION {{TaskArgs(Images(n), reference_cycle, <<>>,
                   [acq \in 0..(n - 1) |->
                      DiskGroup(DiskTable(geom, acq, names,
                                          IF acq = reference_cycle THEN <<>>
                                          ELSE [r \in 1..Len(names) |-> RowTr(trs[acq], r)],
                                          acq # reference_cycle))]) :
                   trs \in [(0..(n - 1)) \ {reference_cycle} -> TrSamples]} :
                reference_cycle \in 0..(n - 1)} :
           names \in {<<"FOV_1">>, <<"FOV_1", "FOV_2">>}, geom \in GeomSamples} :
         n \in 1..MaxCycles}

\* Wells whose tables have or lack the translation columns, with a
\* reference cycle that may not be an acquisition of the well.
ColumnInputs ==
  UNION {{TaskArgs(Images(n), reference_cycle, <<>>,
             [acq \in 0..(n - 1) |->
                DiskGroup(DiskTable("same", acq, <<"FOV_1">>, <<<<0, 0, 5>>>>, has_tr[acq]))]) :
             reference_cycle \in 0..n, has_tr \in [0..(n - 1) -> BOOLEAN]} :
         n \in 1..MaxCycles}

\* Wells without images, with two images of one acquisition, or with an
\* image without acquisition metadata.
ImageInputs ==
  {TaskArgs(images, 0, <<>>,
            [acq \in 0..1 |->
               DiskGroup(DiskTable("same", acq, <<"FOV_1">>, <<<<0, 0, 5>>>>, acq # 0))]) :
     images \in {<<>>, <<0, 0>>, <<-1>>, <<0, -1>>}}

TaskInputs == NameInputs \cup ShiftInputs \cup ColumnInputs \cup ImageInputs

\* Data frames of translations for calculate_min_max_across_dfs: all
\* negative, all positive and mixed rows.
FrameVecs == {<<-4, -5, -1>>, <<-2, -6, -3>>, <<3, 4, 1>>, <<-1, 2, -3>>}

FrameInputs(index) ==
  {[index |-> index, values |-> [r \in 1..Len(index) |-> RowTr(tr, r)]] : tr \in FrameVecs}

TablesListInputs ==
  UNION {[1..n -> FrameInputs(<<"FOV_1">>)] \cup [1..n -> FrameInputs(<<"FOV_1", "FOV_2">>)] :
         n \in 0..MaxCycles}

InitRegistration ==
  /\ pc = "call"
  /\ NoIllumination
  /\ NoChannels
  /\ NoProcess
  /\ ret = NoResult
  /\ roi_tables = <<>>
  /\ max_df = <<>>
  /\ min_df = <<>>
  /\ shifted_rois = <<>>
  /\ loop_i = 0
  /\ \/ /\ call = "apply_registration_to_ROI_tables"
        /\ args \in TaskInputs
        /\ store = args.disk
     \/ /\ call = "calculate_min_max_across_dfs"
        /\ args \in {<<tables_list>> : tables_list \in TablesListInputs}
        /\ store = <<>>

\* Lines 81-132: the acquisitions of the well, their tables with the zero
\* translations of the reference cycle, the check of the translation
\* columns and the reset of the origins.
Task_collect_tables ==
  /\ pc = "call"
  /\ call = "apply_registration_to_ROI_tables"
  /\ LET collected ==
           IF AcquisitionDict.status # "ok" THEN AcquisitionDict
           ELSE CollectTables(store, AcquisitionDict.value, args.roi_table,
                              args.reference_cycle, 1, <<>>)
     IN IF collected.status # "ok"
          THEN /\ ret' = collected
               /\ pc' = "done"
               /\ UNCHANGED roi_tables
          ELSE /\ roi_tables' = [acq \in DOMAIN collected.value |->
                                   reset_origin(collected.value[acq])]
               /\ pc' = "check_rois"
               /\ UNCHANGED ret
  /\ UNCHANGED <<call, args, store, max_df, min_df, shifted_rois, loop_i>>
  /\ UNCHANGED <<illumvars, chanvars, runvars>>

\* Lines 134-143: every acquisition has the ROIs of the reference cycle.
Task_check_rois ==
  /\ pc = "check_rois"
  /\ IF args.reference_cycle \notin DOMAIN roi_tables
       THEN /\ ret' = Raise("KeyError")
            /\ pc' = "done"
       ELSE LET checked == CheckRois(roi_tables, AcquisitionDict.value,
                                     roi_tables[args.reference_cycle].obs, 1)
            IN IF checked.status # "ok"
                 THEN /\ ret' = checked
                      /\ pc' = "done"
                 ELSE /\ pc' = "min_max"
                      /\ UNCHANGED ret
  /\ UNCHANGED <<call, args, store, roi_tables, max_df, min_df, shifted_rois, loop_i>>
  /\ UNCHANGED <<illumvars, chanvars, runvars>>

\* Lines 145-151: the maximum and minimum shifts across the acquisitions, in
\* the order of the dictionary roi_tables.
Task_min_max ==
  /\ pc = "min_max"
  /\ LET acqs == AcquisitionDict.value
         roi_table_dfs == [k \in 1..Len(acqs) |-> TranslationFrame(roi_tables[acqs[k]])]
         min_max == calculate_min_max_across_dfs(roi_table_dfs).value
     IN /\ max_df' = min_max[1]
        /\ min_df' = min_max[2]
  /\ loop_i' = 1
  /\ pc' = "loop"
  /\ UNCHANGED <<call, args, ret, store, roi_tables, shifted_rois>>
  /\ UNCHANGED <<illumvars, chanvars, runvars>>

\* Lines 153-170: one pass of the loop over the acquisitions.
Task_register_acquisition ==
  /\ pc = "loop"
  /\ loop_i <= Len(AcquisitionDict.value)
  /\ LET acq == AcquisitionDict.value[loop_i]
         applied == apply_registration_to_single_ROI_table(
                      roi_tables[acq], max_df, min_df,
                      roi_tables[args.reference_cycle].obs)
     IN /\ roi_tables' = [roi_tables EXCEPT ![acq] = applied.arg]
        /\ shifted_rois' = (acq :> applied.result) @@ shifted_rois
        /\ store' = [store EXCEPT ![acq] =
                       WriteRegisteredTable(store[acq], args.roi_table, NewRoiTable,
                                            applied.result)]
  /\ loop_i' = loop_i + 1
  /\ UNCHANGED <<pc, call, args, ret, max_df, min_df>>
  /\ UNCHANGED <<illumvars, chanvars, runvars>>

\* Line 182: return {} after the last acquisition.
Task_return ==
  /\ pc = "loop"
  /\ loop_i > Len(AcquisitionDict.value)
  /\ ret' = Return(<<>>)
  /\ pc' = "done"
  /\ UNCHANGED <<call, args, store, roi_tables, max_df, min_df, shifted_rois, loop_i>>
  /\ UNCHANGED <<illumvars, chanvars, runvars>>

Call_calculate_min_max_across_dfs ==
  /\ pc = "call"
  /\ call = "calculate_min_max_across_dfs"
  /\ ret' = calculate_min_max_across_dfs(args[1])
  /\ pc' = "done"
  /\ UNCHANGED <<call, args>>
  /\ UNCHANGED <<regvars, illumvars, chanvars, runvars>>

NextRegistration ==
  \/ Task_collect_tables
  \/ Task_check_rois
  \/ Task_min_max
  \/ Task_register_acquisition
  \/ Task_return
  \/ Call_calculate_min_max_across_dfs

SpecRegistration == InitRegistration /\ [][NextRegistration]_vars

(***************************************************************************)
(* illumination_correction.py                                              *)
(*                                                                         *)
(* Micrometers and pixel sizes are integers of one unit of length, so that *)
(* the quotients position / pixel size are rationals that are rounded      *)
(* exactly.  A window is the tuple (s_z, e_z, s_y, e_y, s_x, e_x).         *)
(***************************************************************************)

\* round(n / d) for n >= 0 and d > 0, halves away from zero.
RoundDiv(n, d) == (2 * n + d) \div (2 * d)

\* base ** exponent
RECURSIVE Power(_, _)
Power(base, exponent) ==
  IF exponent = 0 THEN 1 ELSE base * Power(base, exponent - 1)

\* The pixel sizes at a level with the factor coarsening_xy ** level on
\* every axis, z included.
EffectivePixelSizes_all_axes(full_res_pxl_sizes_zyx, level, coarsening_xy) ==
  <<full_res_pxl_sizes_zyx[1] * Power(coarsening_xy, level),
    full_res_pxl_sizes_zyx[2] * Power(coarsening_xy, level),
    full_res_pxl_sizes_zyx[3] * Power(coarsening_xy, level)>>

\* The pixel sizes at a level: z unchanged, y and x multiplied by
\* coarsening_xy ** level.
EffectivePixelSizes(full_res_pxl_sizes_zyx, level, coarsening_xy) ==
  <<full_res_pxl_sizes_zyx[1],
    full_res_pxl_sizes_zyx[2] * Power(coarsening_xy, level),
    full_res_pxl_sizes_zyx[3] * Power(coarsening_xy, level)>>

\* The window of one ROI record: start = round(position / pixel size),
\* end = round((position + extent) / pixel size) on every axis.
RoiIndices(roi, pxl_sizes_zyx) ==
  <<RoundDiv(roi.pos[1], pxl_sizes_zyx[1]),
    RoundDiv(roi.pos[1] + roi.len[1], pxl_sizes_zyx[1]),
    RoundDiv(roi.pos[2], pxl_sizes_zyx[2]),
    RoundDiv(roi.pos[2] + roi.len[2], pxl_sizes_zyx[2]),
    RoundDiv(roi.pos[3], pxl_sizes_zyx[3]),
    RoundDiv(roi.pos[3] + roi.len[3], pxl_sizes_zyx[3])>>

\* convert_ROI_table_to_indices: one window per ROI record of the table.
convert_ROI_table_to_indices(ROI, level, coarsening_xy, full_res_pxl_sizes_zyx) ==
  [r \in 1..Len(ROI) |->
     RoiIndices(ROI[r], EffectivePixelSizes(full_res_pxl_sizes_zyx, level, coarsening_xy))]

\* The image size taken from the y extent alone.
ImgSize_y_only(indices) == <<indices[4] - indices[3], indices[4] - indices[3]>>

\* Lines 166-167: the image size (y, x) of a window.
ImgSize(indices) == <<indices[4] - indices[3], indices[6] - indices[5]>>

\* Lines 165-174: the loop that compares the image size of every window with
\* that of the first one, from window k on, and the unpacking of the last
\* img_size, which is unbound when the list is empty.
RECURSIVE CheckImgSizes(_, _)
CheckImgSizes(indices_list, k) ==
  IF Len(indices_list) = 0 THEN Raise("UnboundLocalError")
  ELSE IF k > Len(indices_list) THEN Return(ImgSize(indices_list[Len(indices_list)]))
  ELSE IF ImgSize(indices_list[k]) # ImgSize(indices_list[1])
    THEN RaiseMsg("Exception", "ERROR: inconsistent image sizes in list_indices")
  ELSE CheckImgSizes(indices_list, k + 1)

\* dict.pop(key) on a dictionary: the value and the dictionary without the
\* key, or KeyError.
DictPop(d, key) ==
  IF key \in DOMAIN d
    THEN Return(<<d[key], [k \in DOMAIN d \ {key} |-> d[k]]>>)
    ELSE Raise("KeyError")

\* Lines 187-194: the loop over chl_list from channel k on, which reads the
\* matrix of each channel and checks its shape; reads counts the matrices
\* read so far.  The outcome carries the number of matrices read.
RECURSIVE LoadCorrections(_, _, _, _, _, _)
LoadCorrections(chl_list, corr, shapes, img_size, k, reads) ==
  IF k > Len(chl_list) THEN [status |-> "ok", value |-> <<>>, reads |-> reads]
  ELSE IF chl_list[k] \notin DOMAIN corr
    THEN [status |-> "KeyError", value |-> <<>>, reads |-> reads]
  ELSE IF shapes[corr[chl_list[k]]] # img_size
    THEN [status |-> "Exception",
          value |-> "Error in illumination_correction, correction matrix has wrong shape.",
          reads |-> reads + 1]
  ELSE LoadCorrections(chl_list, corr, shapes, img_size, k + 1, reads + 1)

\* The component the caller is at.
Component == args.components[component_i]

\* The image size of the call in progress, once the sizes are checked.
CheckedImgSize == CheckImgSizes(list_indices, 1)

(***************************************************************************)
(* Inputs of illumination_correction: a caller that processes up to        *)
(* MaxComponents components with one dictionary dict_corr, and calls of    *)
(* convert_ROI_table_to_indices on one ROI record.                         *)
(***************************************************************************)

MaxComponents == 2

MaxMicrometer == 6

MaxLevel == 2

\* A ROI record at z = 0.
Tile(pos_y, pos_x, len_z, len_y, len_x) ==
  [pos |-> <<0, pos_y, pos_x>>, len |-> <<len_z, len_y, len_x>>]

\* FOV tables for pixel sizes (10, 2, 2): equal tiles, a tile that differs
\* along x, y or z, a third tile that differs, tiles equal in micrometers
\* whose pixel extents differ by rounding, one tile, no tile.
FovTableSamples ==
  {<<Tile(0, 0, 10, 4, 4), Tile(0, 4, 10, 4, 4)>>,
   <<Tile(0, 0, 10, 4, 4), Tile(0, 4, 10, 4, 6)>>,
   <<Tile(0, 0, 10, 4, 4), Tile(4, 0, 10, 6, 4)>>,
   <<Tile(0, 0, 10, 4, 4), Tile(0, 4, 20, 4, 4)>>,
   <<Tile(0, 0, 10, 4, 4), Tile(0, 4, 10, 4, 4), Tile(4, 0, 10, 4, 2)>>,
   <<Tile(0, 0, 10, 4, 3), Tile(0, 3, 10, 4, 3)>>,
   <<Tile(0, 0, 10, 4, 4)>>,
   <<>>}

UniformFovTable == <<Tile(0, 0, 10, 4, 4), Tile(0, 4, 10, 4, 4)>>

\* The shapes (y, x) of the image files of the correction matrices.
MatrixShapes ==
  ("illum_corr_matrix.png" :> <<2, 2>>) @@ ("large_matrix.png" :> <<3, 3>>)

\* Dictionaries dict_corr: as in the workflow test for two channels, with a
\* matrix of another shape, without a channel, without root_path_corr.
DictCorrSamples ==
  {("root_path_corr" :> "illumination_correction/") @@ ("A01_C01" :> "illum_corr_matrix.png")
     @@ ("A02_C02" :> "illum_corr_matrix.png"),
   ("root_path_corr" :> "illumination_correction/") @@ ("A01_C01" :> "illum_corr_matrix.png")
     @@ ("A02_C02" :> "large_matrix.png"),
   ("root_path_corr" :> "illumination_correction/") @@ ("A01_C01" :> "illum_corr_matrix.png"),
   ("A01_C01" :> "illum_corr_matrix.png") @@ ("A02_C02" :> "illum_corr_matrix.png")}

TestDictCorr ==
  ("root_path_corr" :> "illumination_correction/") @@ ("A01_C01" :> "illum_corr_matrix.png")
    @@ ("A02_C02" :> "illum_corr_matrix.png")

ChlListInputs == {<<"A01_C01">>, <<"A01_C01", "A02_C02">>}

IllumArgs(input_paths_len, overwrite, new_component_given, tables, chl_list, corr) ==
  [input_paths_len |-> input_paths_len,
   overwrite |-> overwrite,
   new_component_given |-> new_component_given,
   components |-> [k \in 1..Len(tables) |->
                     [FOV_ROI_table |-> tables[k], full_res_pxl_sizes_zyx |-> <<10, 2, 2>>]],
   chl_list |-> chl_list,
   coarsening_xy |-> 2,
   dict_corr |-> corr]

\* Callers whose components have FOV tables of every kind.
FovTableInputs ==
  UNION {{IllumArgs(1, TRUE, FALSE, tables, chl_list, TestDictCorr) :
            tables \in [1..n -> FovTableSamples], chl_list \in ChlListInputs} :
         n \in 1..MaxComponents}

\* Calls with every combination of the arguments of the preliminary checks.
PreliminaryInputs ==
  {IllumArgs(input_paths_len, overwrite, new_component_given,
             <<UniformFovTable>>, <<"A01_C01">>, TestDictCorr) :
     input_paths_len \in 1..2, overwrite \in BOOLEAN, new_component_given \in BOOLEAN}

\* Callers with every kind of dictionary dict_corr.
DictCorrInputs ==
  UNION {{IllumArgs(1, TRUE, FALSE, [k \in 1..n |-> UniformFovTable], chl_list, corr) :
            chl_list \in ChlListInputs, corr \in DictCorrSamples} :
         n \in 1..MaxComponents}

IllumInputs == FovTableInputs \cup PreliminaryInputs \cup DictCorrInputs

\* One ROI record, a level, a coarsening factor and pixel sizes.
ConvertInputs ==
  {<<<<[pos |-> <<0, pos_y, pos_x>>, len |-> <<len_z, len_yx, len_yx>>]>>,
     level, coarsening_xy, pxl>> :
     pos_y \in 0..MaxMicrometer, pos_x \in 0..MaxMicrometer,
     len_z \in {5, 10, 20}, len_yx \in 1..MaxMicrometer,
     level \in 0..MaxLevel, coarsening_xy \in 2..3,
     pxl \in {<<10, 2, 2>>, <<5, 3, 3>>}}

InitIllumination ==
  /\ pc = "call"
  /\ ret = NoResult
  /\ NoRegistration
  /\ NoChannels
  /\ NoProcess
  /\ list_indices = <<>>
  /\ pixel_io = 0
  /\ region_i = 0
  /\ \/ /\ call = "illumination_correction"
        /\ args \in IllumInputs
        /\ dict_corr = args.dict_corr
        /\ component_i = 1
     \/ /\ call = "convert_ROI_table_to_indices"
        /\ args \in ConvertInputs
        /\ dict_corr = <<>>
        /\ component_i = 0

\* Lines 113-128: the preliminary checks of a call.
Illum_preliminary_checks ==
  /\ pc = "call"
  /\ call = "illumination_correction"
  /\ IF args.input_paths_len > 1
       THEN ret' = Raise("NotImplementedError") /\ pc' = "done"
     ELSE IF \/ args.overwrite /\ args.new_component_given
             \/ ~args.new_component_given /\ ~args.overwrite
       THEN ret' = RaiseMsg("Exception", "overwrite, but new_component") /\ pc' = "done"
     ELSE IF ~args.overwrite
       THEN ret' = Raise("NotImplementedError") /\ pc' = "done"
     ELSE ret' = ret /\ pc' = "read_rois"
  /\ UNCHANGED <<call, args, illumvars>>
  /\ UNCHANGED <<regvars, chanvars, runvars>>

\* Lines 131-161: the FOV table and the pixel sizes of the component are
\* read and converted to the windows at level 0.
Illum_read_rois ==
  /\ pc = "read_rois"
  /\ list_indices' = convert_ROI_table_to_indices(
                       Component.FOV_ROI_table, 0, args.coarsening_xy,
                       Component.full_res_pxl_sizes_zyx)
  /\ pc' = "check_sizes"
  /\ UNCHANGED <<call, args, ret, dict_corr, pixel_io, component_i, region_i>>
  /\ UNCHANGED <<regvars, chanvars, runvars>>

\* Lines 163-174: the image sizes of the windows are compared.
Illum_check_sizes ==
  /\ pc = "check_sizes"
  /\ IF CheckedImgSize.status # "ok"
       THEN ret' = CheckedImgSize /\ pc' = "done"
       ELSE ret' = ret /\ pc' = "load_corrections"
  /\ UNCHANGED <<call, args, illumvars>>
  /\ UNCHANGED <<regvars, chanvars, runvars>>

\* Lines 176-190: root_path_corr is popped from dict_corr and the matrix of
\* every channel is read and its shape checked.
Illum_load_corrections ==
  /\ pc = "load_corrections"
  /\ LET popped == DictPop(dict_corr, "root_path_corr")
     IN IF popped.status # "ok"
          THEN /\ ret' = popped
               /\ pc' = "done"
               /\ UNCHANGED <<dict_corr, pixel_io, region_i>>
          ELSE LET loaded == LoadCorrections(args.chl_list, popped.value[2], MatrixShapes,
                                             CheckedImgSize.value, 1, 0)
               IN /\ dict_corr' = popped.value[2]
                  /\ pixel_io' = pixel_io + loaded.reads
                  /\ IF loaded.status # "ok"
                       THEN /\ ret' = [status |-> loaded.status, value |-> loaded.value]
                            /\ pc' = "done"
                            /\ UNCHANGED region_i
                       ELSE /\ pc' = "correct"
                            /\ region_i' = 1
                            /\ UNCHANGED ret
  /\ UNCHANGED <<call, args, list_indices, component_i>>
  /\ UNCHANGED <<regvars, chanvars, runvars>>

\* Lines 213-237: one pass of the loops over the channels and the windows:
\* the region is read, corrected and written.
Illum_correct_region ==
  /\ pc = "correct"
  /\ region_i <= Len(args.chl_list) * Len(list_indices)
  /\ pixel_io' = pixel_io + 2
  /\ region_i' = region_i + 1
  /\ UNCHANGED <<pc, call, args, ret, dict_corr, list_indices, component_i>>
  /\ UNCHANGED <<regvars, chanvars, runvars>>

\* Lines 241-250: the pyramid is built and the call returns; the caller goes
\* on with its next component.
Illum_build_pyramid ==
  /\ pc = "correct"
  /\ region_i > Len(args.chl_list) * Len(list_indices)
  /\ IF component_i < Len(args.components)
       THEN /\ component_i' = component_i + 1
            /\ pc' = "call"
            /\ list_indices' = <<>>
            /\ pixel_io' = 0
            /\ region_i' = 0
            /\ UNCHANGED ret
       ELSE /\ ret' = Return(<<>>)
            /\ pc' = "done"
            /\ pixel_io' = pixel_io + 1
            /\ UNCHANGED <<list_indices, component_i, region_i>>
  /\ UNCHANGED <<call, args, dict_corr>>
  /\ UNCHANGED <<regvars, chanvars, runvars>>

Call_convert_ROI_table_to_indices ==
  /\ pc = "call"
  /\ call = "convert_ROI_table_to_indices"
  /\ ret' = Return(convert_ROI_table_to_indices(args[1], args[2], args[3], args[4]))
  /\ pc' = "done"
  /\ UNCHANGED <<call, args>>
  /\ UNCHANGED <<regvars, illumvars, chanvars, runvars>>

NextIllumination ==
  \/ Illum_preliminary_checks
  \/ Illum_read_rois
  \/ Illum_check_sizes
  \/ Illum_load_corrections
  \/ Illum_correct_region
  \/ Illum_build_pyramid
  \/ Call_convert_ROI_table_to_indices

SpecIllumination == InitIllumination /\ [][NextIllumination]_vars

(***************************************************************************)
(* lib_channels.py                                                         *)
(*                                                                         *)
(* A channel is a dictionary, a function from its keys to their values; a  *)
(* list of channels is a sequence of dictionaries.  None is a value of its *)
(* own.                                                                    *)
(***************************************************************************)

None == "<None>"

\* The truth value of an optional string argument: None and "" are false.
Truthy(x) == x # None /\ x # ""

\* The test of lines 121-136 on one channel: "KeyError" when the channel
\* lacks a key that is read; with both values given, wavelength_id is read
\* only when the label is equal.
Matches(c, label, wavelength_id) ==
  IF Truthy(label)
    THEN IF "label" \notin DOMAIN c THEN "KeyError"
         ELSE IF c["label"] # label THEN "no"
         ELSE IF ~Truthy(wavelength_id) THEN "yes"
         ELSE IF "wavelength_id" \notin DOMAIN c THEN "KeyError"
         ELSE IF c["wavelength_id"] = wavelength_id THEN "yes" ELSE "no"
  ELSE IF "wavelength_id" \notin DOMAIN c THEN "KeyError"
  ELSE IF c["wavelength_id"] = wavelength_id THEN "yes" ELSE "no"

\* list.index(x): the first position, counted from 0, of an element equal
\* to x.
ListIndex(chs, x) == (CHOOSE k \in 1..Len(chs) :
                        chs[k] = x /\ \A j \in 1..(k - 1) : chs[j] # x) - 1

\* Lines 138-148 of get_channel_from_list, given the positions of the
\* matching channels: the outcome and the list of channels after the call,
\* whose matching channel has received the key "index".
SelectChannel(chs, matching_channels) ==
  IF Cardinality(matching_channels) > 1
    THEN [outcome |-> RaiseMsg("ValueError", "Inconsistent set of channels"), channels |-> chs]
  ELSE IF Cardinality(matching_channels) = 0
    THEN [outcome |-> RaiseMsg("ValueError", "No channel found"), channels |-> chs]
  ELSE
    LET k == CHOOSE m \in matching_channels : TRUE
        channel == ("index" :> ListIndex(chs, chs[k])) @@ chs[k]
    IN [outcome |-> Return(channel), channels |-> [chs EXCEPT ![k] = channel]]

\* get_channel_from_list that accepts the first of several matching
\* channels.
get_channel_from_list_first_match(chs, label, wavelength_id) ==
  LET matching == {k \in 1..Len(chs) : Matches(chs[k], label, wavelength_id) = "yes"}
  IN IF ~Truthy(label) /\ ~Truthy(wavelength_id)
       THEN [outcome |-> RaiseMsg("ValueError", "get_channel requires at least one argument"),
             channels |-> chs]
     ELSE IF \E k \in 1..Len(chs) : Matches(chs[k], label, wavelength_id) = "KeyError"
       THEN [outcome |-> Raise("KeyError"), channels |-> chs]
     ELSE IF matching = {}
       THEN SelectChannel(chs, matching)
     ELSE SelectChannel(chs, {CHOOSE m \in matching : \A j \in matching : m <= j})

\* get_channel_from_list: the outcome and the caller's list after the call.
get_channel_from_list(chs, label, wavelength_id) ==
  IF ~Truthy(label) /\ ~Truthy(wavelength_id)
    THEN [outcome |-> RaiseMsg("ValueError", "get_channel requires at least one argument"),
          channels |-> chs]
  ELSE IF \E k \in 1..Len(chs) : Matches(chs[k], label, wavelength_id) = "KeyError"
    THEN [outcome |-> Raise("KeyError"), channels |-> chs]
  ELSE SelectChannel(chs, {k \in 1..Len(chs) :
                             Matches(chs[k], label, wavelength_id) = "yes"})

\* Line 167 with the list left by the calls before it kept.
NewDefaultColormaps_kept(left_over, calls_done) ==
  IF calls_done = 0 THEN <<"00FFFF", "FF00FF", "FFFF00">> ELSE left_over

\* Line 167: the list default_colormaps of a call, whatever the calls
\* before it have left.
NewDefaultColormaps(left_over, calls_done) == <<"00FFFF", "FF00FF", "FFFF00">>

\* Lines 188-193 with the colours popped from the front of the list.
PopColormap_front(channel, colormaps) ==
  IF "colormap" \in DOMAIN channel /\ channel["colormap"] # None
    THEN <<channel["colormap"], colormaps>>
  ELSE IF Len(colormaps) = 0 THEN <<"808080", colormaps>>
  ELSE <<colormaps[1], SubSeq(colormaps, 2, Len(colormaps))>>

\* Lines 188-193: the colour of a channel and the list default_colormaps
\* after it; list.pop() takes the last element.
PopColormap(channel, colormaps) ==
  IF "colormap" \in DOMAIN channel /\ channel["colormap"] # None
    THEN <<channel["colormap"], colormaps>>
  ELSE IF Len(colormaps) = 0 THEN <<"808080", colormaps>>
  ELSE <<colormaps[Len(colormaps)], SubSeq(colormaps, 1, Len(colormaps) - 1)>>

\* Lines 175-184: the label of a channel, by default its wavelength_id with
\* the prefix.
ChannelLabel(channel, wavelength_id, label_prefix) ==
  IF "label" \in DOMAIN channel THEN channel["label"]
  ELSE IF Truthy(label_prefix) THEN label_prefix \o "_" \o wavelength_id
  ELSE wavelength_id

\* Line 206: 2**bit_depth.
RECURSIVE TwoToThe(_)
TwoToThe(bit_depth) == IF bit_depth = 0 THEN 1 ELSE 2 * TwoToThe(bit_depth - 1)

\* Lines 195-215: the dictionary appended to omero_channels; "start" is
\* set before the KeyError of a missing "end".
OmeroChannel(channel, label, wavelength_id, colormap, bit_depth) ==
  [label |-> label,
   wavelength_id |-> wavelength_id,
   active |-> TRUE,
   coefficient |-> 1,
   color |-> colormap,
   family |-> "linear",
   inverted |-> FALSE,
   window |-> IF "start" \in DOMAIN channel /\ "end" \in DOMAIN channel
                THEN [min |-> 0, max |-> TwoToThe(bit_depth) - 1,
                      start |-> channel["start"], end |-> channel["end"]]
              ELSE IF "start" \in DOMAIN channel
                THEN [min |-> 0, max |-> TwoToThe(bit_depth) - 1,
                      start |-> channel["start"]]
              ELSE [min |-> 0, max |-> TwoToThe(bit_depth) - 1]]

\* The channel of the running pass of the loop of define_omero_channels.
LoopChannel == channels[channel_i]

\* Lines 218-220: the labels of omero_channels are pairwise different.
UniqueLabels(omero) ==
  \A i, j \in 1..Len(omero) : omero[i].label = omero[j].label => i = j

(***************************************************************************)
(* Inputs of lib_channels.py.                                              *)
(***************************************************************************)

MaxChannels == 5
MaxCalls == 2
MaxListLen == 3

Wavelengths == <<"A01_C01", "A02_C02", "A03_C03", "A04_C04", "A05_C05", "A06_C06",
                 "A07_C07">>
Labels == <<"DAPI", "GFP", "Cy5", "RFP", "YFP", "BFP", "CFP">>

\* The channel of position k of a list: with its wavelength_id alone, with
\* a label and a colormap, or with a label and a window.
ChannelOptions(k) ==
  { [wavelength_id |-> Wavelengths[k]],
    [wavelength_id |-> Wavelengths[k], label |-> Labels[k], colormap |-> "00FF00"],
    [wavelength_id |-> Wavelengths[k], label |-> Labels[k], start |-> 110, end |-> 800] }

\* The lists of n channels with the wavelength_id of their position.
RECURSIVE ChannelListsOfLen(_)
ChannelListsOfLen(n) ==
  IF n = 0 THEN {<<>>}
  ELSE {Append(chs, c) : chs \in ChannelListsOfLen(n - 1), c \in ChannelOptions(n)}

ChannelLists == UNION {ChannelListsOfLen(n) : n \in 0..MaxChannels}

\* Lists with a repeated wavelength_id, a repeated label, a label equal to
\* the default label of another channel, a channel without wavelength_id,
\* a window without its end, a colormap that is None, an empty
\* wavelength_id.
SpecialChannelLists ==
  { <<[wavelength_id |-> "A01_C01", label |-> "DAPI"],
      [wavelength_id |-> "A01_C01", label |-> "GFP"]>>,
    <<[wavelength_id |-> "A01_C01", label |-> "DAPI"],
      [wavelength_id |-> "A02_C02", label |-> "DAPI"]>>,
    <<[wavelength_id |-> "A01_C01"],
      [wavelength_id |-> "A02_C02", label |-> "A01_C01"]>>,
    <<[wavelength_id |-> "A01_C01"],
      [wavelength_id |-> "A02_C02", label |-> "c1_A01_C01"]>>,
    <<[wavelength_id |-> "A01_C01"], [label |-> "GFP"]>>,
    <<[label |-> "GFP"], [wavelength_id |-> "A01_C01"]>>,
    <<[wavelength_id |-> "A01_C01", start |-> 110]>>,
    <<[wavelength_id |-> "A01_C01", end |-> 800]>>,
    <<[wavelength_id |-> "A01_C01", colormap |-> None],
      [wavelength_id |-> "A02_C02"]>>,
    <<[wavelength_id |-> ""]>>,
    <<[wavelength_id |-> "A01_C01"], [wavelength_id |-> "A01_C01"]>> }

\* The arguments of a session of calls of define_omero_channels with the
\* same list of channels.
OmeroInputs ==
  [channels : ChannelLists \cup SpecialChannelLists,
   bit_depth : {8, 16},
   label_prefix : {None, "c1"},
   calls : 1..MaxCalls]

\* Channels with both keys, as the docstring of get_channel_from_list
\* requires, and channels without one of them.
ListedChannels ==
  [wavelength_id : {"A01_C01", "A02_C02"}, label : {"DAPI", "GFP"}]

GetChannelLists ==
  UNION {[1..n -> ListedChannels] : n \in 0..MaxListLen}
    \cup { <<[wavelength_id |-> "A01_C01"], [wavelength_id |-> "A02_C02", label |-> "GFP"]>>,
           <<[wavelength_id |-> "A01_C01", label |-> "DAPI"], [label |-> "GFP"]>>,
           <<[wavelength_id |-> "A01_C01", label |-> "DAPI", index |-> 1],
             [wavelength_id |-> "A01_C01", label |-> "DAPI"]>>,
           <<[wavelength_id |-> "A01_C01", label |-> "DAPI"],
             [wavelength_id |-> "A02_C02", label |-> "GFP", index |-> 0]>> }

GetChannelInputs ==
  GetChannelLists \X {None, "", "DAPI", "GFP", "Cy5"}
                  \X {None, "", "A01_C01", "A02_C02", "A03_C03"}

(***************************************************************************)
(* Runs of lib_channels.py: a session of calls of define_omero_channels    *)
(* with the caller's list of channels, one action per pass of its loop, or *)
(* one call of get_channel_from_list.  returned holds the lists that the   *)
(* calls of the session have returned.                                     *)
(***************************************************************************)

InitChannels ==
  /\ pc = "call"
  /\ ret = NoResult
  /\ NoRegistration
  /\ NoIllumination
  /\ NoProcess
  /\ default_colormaps = <<>>
  /\ omero_channels = <<>>
  /\ channel_i = 0
  /\ returned = <<>>
  /\ \/ /\ call = "define_omero_channels"
        /\ args \in OmeroInputs
        /\ channels = args.channels
     \/ /\ call = "get_channel_from_list"
        /\ args \in GetChannelInputs
        /\ channels = args[1]

\* Lines 166-167: a call starts with its own lists.
Omero_start ==
  /\ pc = "call"
  /\ call = "define_omero_channels"
  /\ omero_channels' = <<>>
  /\ default_colormaps' = NewDefaultColormaps(default_colormaps, Len(returned))
  /\ channel_i' = 1
  /\ pc' = "loop"
  /\ UNCHANGED <<call, args, ret, channels, returned>>
  /\ UNCHANGED <<regvars, illumvars, runvars>>

\* Lines 168-215: one pass of the loop.
Omero_channel ==
  /\ pc = "loop"
  /\ channel_i <= Len(channels)
  /\ UNCHANGED <<call, args, returned>>
  /\ UNCHANGED <<regvars, illumvars, runvars>>
  /\ IF "wavelength_id" \notin DOMAIN LoopChannel
       THEN /\ ret' = Raise("KeyError")
            /\ pc' = "done"
            /\ UNCHANGED <<channels, default_colormaps, omero_channels, channel_i>>
     ELSE
       LET wavelength_id == LoopChannel["wavelength_id"]
           found == get_channel_from_list(channels, None, wavelength_id)
       IN IF found.outcome.status # "ok"
            THEN /\ ret' = found.outcome
                 /\ pc' = "done"
                 /\ UNCHANGED <<channels, default_colormaps, omero_channels, channel_i>>
          ELSE
            LET channel == found.outcome.value
                label == ChannelLabel(channel, wavelength_id, args.label_prefix)
                popped == PopColormap(channel, default_colormaps)
            IN /\ channels' = found.channels
               /\ default_colormaps' = popped[2]
               /\ omero_channels' =
                    Append(omero_channels,
                           OmeroChannel(channel, label, wavelength_id, popped[1],
                                        args.bit_depth))
               /\ channel_i' = channel_i + 1
               /\ UNCHANGED <<pc, ret>>

\* Lines 217-222: the check of the labels and the return; the session goes
\* on with its next call.
Omero_return ==
  /\ pc = "loop"
  /\ channel_i > Len(channels)
  /\ UNCHANGED <<call, args, channels, default_colormaps, omero_channels, channel_i>>
  /\ UNCHANGED <<regvars, illumvars, runvars>>
  /\ IF ~UniqueLabels(omero_channels)
       THEN /\ ret' = RaiseMsg("ValueError", "Non-unique labels")
            /\ pc' = "done"
            /\ UNCHANGED returned
     ELSE /\ returned' = Append(returned, omero_channels)
          /\ ret' = Return(omero_channels)
          /\ pc' = IF Len(returned) + 1 < args.calls THEN "call" ELSE "done"

Call_get_channel_from_list ==
  /\ pc = "call"
  /\ call = "get_channel_from_list"
  /\ LET result == get_channel_from_list(args[1], args[2], args[3])
     IN /\ ret' = result.outcome
        /\ channels' = result.channels
  /\ pc' = "done"
  /\ UNCHANGED <<call, args, default_colormaps, omero_channels, channel_i, returned>>
  /\ UNCHANGED <<regvars, illumvars, runvars>>

NextChannels ==
  \/ Omero_start
  \/ Omero_channel
  \/ Omero_return
  \/ Call_get_channel_from_list

SpecChannels == InitChannels /\ [][NextChannels]_vars

(***************************************************************************)
(* _utils.py                                                               *)
(*                                                                         *)
(* files is the file system, a function from the paths that exist to their *)
(* content; a content is a JSON document [kind, text].  The task function  *)
(* is an argument of the run: it returns a value or raises.                *)
(***************************************************************************)

Absent == "<absent>"

\* Line 71 with the check left out.
Exists_never(fs, path) == FALSE

\* Line 71: Path(args.metadata_out).exists().
Exists(fs, path) == path \in DOMAIN fs

\* Lines 29-37 and 97: json.dump with TaskParameterEncoder, which writes a
\* Path as the string of its as_posix(); a value that JSON cannot hold
\* raises TypeError after open(..., "w") has created the file.
JsonDump(value) ==
  IF value.kind = "path" THEN Return([kind |-> "str", text |-> value.text])
  ELSE IF value.kind = "set" THEN Raise("TypeError")
  ELSE Return(value)

\* Line 96: open(path, "w") creates the file or empties the one there is.
OpenForWriting(fs, path) == (path :> [kind |-> "empty", text |-> ""]) @@ fs

WriteFile(fs, path, content) == (path :> content) @@ fs

\* Lines 78-79: the parameters read from the file of --json.
ReadParameters(fs, path) ==
  IF path \notin DOMAIN fs THEN Raise("FileNotFoundError")
  ELSE IF fs[path].kind \notin {"object", "array"} THEN Raise("JSONDecodeError")
  ELSE Return(fs[path])

\* Lines 81-93: the outcome of task_function(**pars) and the number of
\* times the body of task_function has started.  A list cannot be passed
\* as **pars, and with validate the arguments of the wrong type are
\* rejected before the task function is run.
RunTaskFunction(task, pars, validate) ==
  IF pars.kind = "array" THEN [outcome |-> Raise("TypeError"), calls |-> 0]
  ELSE IF validate /\ pars.text = "wrong types"
    THEN [outcome |-> Raise("ValidationError"), calls |-> 0]
  ELSE [outcome |-> task, calls |-> 1]

(***************************************************************************)
(* Inputs of run_fractal_task.                                             *)
(***************************************************************************)

ParameterFiles ==
  { [kind |-> "object", text |-> "parameters"],
    [kind |-> "object", text |-> "wrong types"],
    [kind |-> "array", text |-> "parameters"],
    [kind |-> "str", text |-> "not JSON"] }

OldOutput == [kind |-> "object", text |-> "old metadata"]

\* The file systems before the run: the parameter file is there or not,
\* and so is the output file.
FileSystems ==
  {<<>>} \cup {("pars.json" :> f) : f \in ParameterFiles}
         \cup {("out.json" :> OldOutput)}
         \cup {("pars.json" :> f) @@ ("out.json" :> OldOutput) : f \in ParameterFiles}

\* What task_function does when it is run.
TaskBehaviours ==
  { Return([kind |-> "object", text |-> "new metadata"]),
    Return([kind |-> "path", text |-> "/tmp/plate.zarr"]),
    Return([kind |-> "null", text |-> ""]),
    Return([kind |-> "set", text |-> "unserialisable"]),
    Raise("Exception") }

RunInputs ==
  [json : {Absent, "pars.json"},
   metadata_out : {Absent, "out.json", "pars.json"},
   validate : BOOLEAN,
   task_function : TaskBehaviours,
   files : FileSystems]

(***************************************************************************)
(* A run of run_fractal_task as the main program of a task, one action per *)
(* step.  ret holds metadata_update between the task and the write, and    *)
(* the exception that ends the run; exit_status is the status of the       *)
(* process, 1 as well for an exception that nothing catches.               *)
(***************************************************************************)

InitRunTask ==
  /\ pc = "call"
  /\ ret = NoResult
  /\ NoRegistration
  /\ NoIllumination
  /\ NoChannels
  /\ call = "run_fractal_task"
  /\ args \in RunInputs
  /\ files = args.files
  /\ task_calls = 0
  /\ exit_status = -1

\* Lines 56-65: both options are required; argparse exits with status 2.
Run_parse_args ==
  /\ pc = "call"
  /\ call = "run_fractal_task"
  /\ IF args.json = Absent \/ args.metadata_out = Absent
       THEN /\ exit_status' = 2
            /\ ret' = Raise("SystemExit")
            /\ pc' = "done"
       ELSE /\ pc' = "check_output"
            /\ UNCHANGED <<exit_status, ret>>
  /\ UNCHANGED <<call, args, files, task_calls>>
  /\ UNCHANGED <<regvars, illumvars, chanvars>>

\* Lines 70-75.
Run_check_output ==
  /\ pc = "check_output"
  /\ IF Exists(files, args.metadata_out)
       THEN /\ exit_status' = 1
            /\ ret' = Raise("SystemExit")
            /\ pc' = "done"
       ELSE /\ pc' = "read_parameters"
            /\ UNCHANGED <<exit_status, ret>>
  /\ UNCHANGED <<call, args, files, task_calls>>
  /\ UNCHANGED <<regvars, illumvars, chanvars>>

\* Lines 77-79.
Run_read_parameters ==
  /\ pc = "read_parameters"
  /\ LET pars == ReadParameters(files, args.json)
     IN IF pars.status # "ok"
          THEN /\ ret' = pars
               /\ exit_status' = 1
               /\ pc' = "done"
          ELSE /\ pc' = "task"
               /\ UNCHANGED <<exit_status, ret>>
  /\ UNCHANGED <<call, args, files, task_calls>>
  /\ UNCHANGED <<regvars, illumvars, chanvars>>

\* Lines 81-93.
Run_task ==
  /\ pc = "task"
  /\ LET run == RunTaskFunction(args.task_function,
                                ReadParameters(files, args.json).value,
                                args.validate)
     IN /\ task_calls' = task_calls + run.calls
        /\ ret' = run.outcome
        /\ IF run.outcome.status # "ok"
             THEN /\ exit_status' = 1
                  /\ pc' = "done"
             ELSE /\ pc' = "write"
                  /\ UNCHANGED exit_status
  /\ UNCHANGED <<call, args, files>>
  /\ UNCHANGED <<regvars, illumvars, chanvars>>

\* Lines 95-97.
Run_write ==
  /\ pc = "write"
  /\ LET dumped == JsonDump(ret.value)
     IN IF dumped.status # "ok"
          THEN /\ files' = OpenForWriting(files, args.metadata_out)
               /\ ret' = dumped
               /\ exit_status' = 1
          ELSE /\ files' = WriteFile(files, args.metadata_out, dumped.value)
               /\ exit_status' = 0
               /\ UNCHANGED ret
  /\ pc' = "done"
  /\ UNCHANGED <<call, args, task_calls>>
  /\ UNCHANGED <<regvars, illumvars, chanvars>>

NextRunTask ==
  \/ Run_parse_args
  \/ Run_check_output
  \/ Run_read_parameters
  \/ Run_task
  \/ Run_write

SpecRunTask == InitRunTask /\ [][NextRunTask]_vars

(***************************************************************************)
(* Properties of the well codec, checked under SpecWells.                  *)
(***************************************************************************)
Done(f) == pc = "done" /\ call = f

ValidRowCol(row, col) ==
  \/ Len(row) = 1 /\ Len(col) = 2
  \/ Len(row) = 2 /\ Len(col) = 3

HasDot(s) == Count(s, ".") > 0

\* C1 (as stated): for every (row, col) with len(row) = 1 and len(col) = 2, or
\* len(row) = 2 and len(col) = 3, decoding the encoded well id returns
\* exactly (row, col).
C1_RoundTripEveryPair ==
  (Done("get_filename_well_id") /\ ValidRowCol(args[1], args[2]))
    => /\ ret.status = "ok"
       /\ _extract_row_col_from_well_id(ret.value) = Return(<<args[1], args[2]>>)

\* C1 (amended): for every such (row, col) in which neither row nor col holds
\* a ".", decoding the encoded well id returns exactly (row, col); when row or
\* col holds a ".", the decoder rejects the encoded id with
\* NotImplementedError.
C1_RoundTripNoDot ==
  (Done("get_filename_well_id") /\ ValidRowCol(args[1], args[2]))
    => /\ ret.status = "ok"
       /\ IF HasDot(args[1]) \/ HasDot(args[2])
            THEN _extract_row_col_from_well_id(ret.value) = Raise("NotImplementedError")
            ELSE _extract_row_col_from_well_id(ret.value) = Return(<<args[1], args[2]>>)

\* C1 witness: ("Aa", "011") has been encoded to "A01.a1", which decodes back
\* to ("Aa", "011").
C1_Witness ==
  /\ Done("get_filename_well_id")
  /\ args = << <<"A", "a">>, <<"0", "1", "1">> >>
  /\ ret = Return(<<"A", "0", "1", ".", "a", "1">>)
  /\ _extract_row_col_from_well_id(ret.value) = Return(args)

\* C2: get_filename_well_id(row, col) is row + col for lengths (1, 2) and
\* row[0] + col[0:2] + "." + row[1] + col[2] for lengths (2, 3); ("A", "01")
\* gives "A01", ("Aa", "011") gives "A01.a1", ("Bc", "023") gives "B02.c3".
C2_EncodeValue ==
  Done("get_filename_well_id") =>
    LET row == args[1]
        col == args[2]
    IN /\ (Len(row) = 1 /\ Len(col) = 2)
            => ret = Return(<<row[1], col[1], col[2]>>)
       /\ (Len(row) = 2 /\ Len(col) = 3)
            => ret = Return(<<row[1], col[1], col[2], ".", row[2], col[3]>>)
       /\ (row = <<"A">> /\ col = <<"0", "1">>)
            => ret = Return(<<"A", "0", "1">>)
       /\ (row = <<"A", "a">> /\ col = <<"0", "1", "1">>)
            => ret = Return(<<"A", "0", "1", ".", "a", "1">>)
       /\ (row = <<"B", "c">> /\ col = <<"0", "2", "3">>)
            => ret = Return(<<"B", "0", "2", ".", "c", "3">>)

\* C2 witness: ("Bc", "023") has been encoded to "B02.c3".
C2_Witness ==
  /\ Done("get_filename_well_id")
  /\ args = << <<"B", "c">>, <<"0", "2", "3">> >>
  /\ ret = Return(<<"B", "0", "2", ".", "c", "3">>)

\* C3: get_filename_well_id raises NotImplementedError, and returns no well
\* id, for every (row, col) whose lengths are neither (1, 2) nor (2, 3).
C3_EncodeRejectsOtherShapes ==
  (Done("get_filename_well_id") /\ ~ValidRowCol(args[1], args[2]))
    => ret = Raise("NotImplementedError")

\* C3 witness: ("A", "1") has been rejected with NotImplementedError.
C3_Witness ==
  /\ Done("get_filename_well_id")
  /\ args = << <<"A">>, <<"1">> >>
  /\ ret.status = "NotImplementedError"

\* C4 (as stated): a 3-character id with no dot yields (well_id[0],
\* well_id[1:3]); a 6-character id with exactly one dot splits on the dot
\* into a 3-character core and a 2-character suffix and yields
\* (core[0] + suffix[0], core[1:3] + suffix[1]).
C4_DecodeValue ==
  Done("_extract_row_col_from_well_id") =>
    LET well_id == args[1]
    IN /\ (Len(well_id) = 3 /\ Count(well_id, ".") = 0)
            => ret = Return(<< <<well_id[1]>>, <<well_id[2], well_id[3]>> >>)
       /\ (Len(well_id) = 6 /\ Count(well_id, ".") = 1)
            => LET core == Split(well_id, ".")[1]
                   suffix == Split(well_id, ".")[2]
               IN /\ Len(core) = 3
                  /\ Len(suffix) = 2
                  /\ ret = Return(<< <<core[1], suffix[1]>>,
                                     <<core[2], core[3], suffix[2]>> >>)

\* Shape test of the decoder: length 3 without a dot, or length 6 with
\* exactly one dot.
AcceptedShape(well_id) ==
  \/ Len(well_id) = 3 /\ Count(well_id, ".") = 0
  \/ Len(well_id) = 6 /\ Count(well_id, ".") = 1

\* C5: _extract_row_col_from_well_id raises NotImplementedError for every
\* well id that is neither (length 3, no dot) nor (length 6, one dot);
\* generate_row_col_split fails as soon as one element has such a shape, also
\* after valid elements, and returns no partial list.
C5_DecodeRejectsOtherShapes ==
  /\ (Done("_extract_row_col_from_well_id") /\ ~AcceptedShape(args[1]))
       => ret = Raise("NotImplementedError")
  /\ (Done("generate_row_col_split")
        /\ \E i \in 1..Len(args[1]) : ~AcceptedShape(args[1][i]))
       => /\ ret.status \in {"NotImplementedError", "IndexError"}
          /\ ret.value = <<>>

\* C5 witness: the list ["A01.a3", "A"], valid element first, has been
\* rejected with NotImplementedError.
C5_Witness ==
  /\ Done("generate_row_col_split")
  /\ args[1] = << <<"A", "0", "1", ".", "a", "3">>, <<"A">> >>
  /\ ret = Raise("NotImplementedError")

\* The number of positions of list l that hold x.
Occurrences(l, x) == Cardinality({i \in 1..Len(l) : l[i] = x})

\* C6: a list returned by generate_row_col_split is a permutation, duplicates
\* kept, of the decoded (row, col) pairs of its input and is in ascending
\* order of the (row, col) tuple, row first then column.
C6_SortedPermutation ==
  (Done("generate_row_col_split") /\ ret.status = "ok") =>
    LET wells == args[1]
        decoded == [i \in 1..Len(wells) |-> _extract_row_col_from_well_id(wells[i])]
        out == ret.value
    IN /\ \A i \in 1..Len(wells) : decoded[i].status = "ok"
       /\ Len(out) = Len(wells)
       /\ \A i \in 1..Len(wells) :
            Occurrences(out, decoded[i].value)
              = Cardinality({j \in 1..Len(wells) : decoded[j] = decoded[i]})
       /\ \A i \in 1..Len(out) : \A j \in 1..Len(out) :
            i < j => ~TupleLess(out[j], out[i])

\* C6 witness: ["B05.b1", "B07.a4"], in ascending order as raw strings, has
\* been returned as [("Ba", "074"), ("Bb", "051")]: the other order.
C6_Witness ==
  /\ Done("generate_row_col_split")
  /\ args[1] = << <<"B", "0", "5", ".", "b", "1">>, <<"B", "0", "7", ".", "a", "4">> >>
  /\ StrLess(args[1][1], args[1][2])
  /\ ret = Return(<< << <<"B", "a">>, <<"0", "7", "4">> >>,
                     << <<"B", "b">>, <<"0", "5", "1">> >> >>)

(***************************************************************************)
(* Properties of the filename parser, checked under SpecFilename.          *)
(***************************************************************************)

\* Exactly six digit characters.
SixDigits(s) == Len(s) = 6 /\ \A i \in 1..Len(s) : s[i] \in DigitChars

\* The 3-field barcode pattern and the 4-field all-digit pattern of a list of
\* fields.
BarcodePattern(fields) ==
  Len(fields) = 3 /\ SixDigits(fields[2]) /\ SixDigits(fields[3])

FailedBarcodePattern(fields) ==
  Len(fields) = 4 /\ \A i \in 1..4 : SixDigits(fields[i])

\* C7: when the plate prefix splits on "_" into exactly 3 fields of which
\* fields[1] and fields[2] are each exactly 6 digit characters, the plate
\* name is fields[0], whatever fields[0] contains.
C7_BarcodePlateName ==
  Done("get_plate_name") =>
    LET fields == Split(args[1], "_")
    IN BarcodePattern(fields) => ret = Return(fields[1])

\* C7 witness: "210305NAR005AAN_210416_164828" has been named
\* "210305NAR005AAN".
C7_Witness ==
  /\ Done("get_plate_name")
  /\ Split(args[1], "_") = << <<"2", "1", "0", "3", "0", "5", "N", "A", "R", "0", "0", "5",
                                "A", "A", "N">>, Date1, Time1 >>
  /\ ret = Return(<<"2", "1", "0", "3", "0", "5", "N", "A", "R", "0", "0", "5", "A", "A", "N">>)

\* C8: when the 3-field rule does not match and the plate prefix splits on
\* "_" into exactly 4 fields that are each exactly 6 digit characters, the
\* plate name is "RS" + fields[0] + fields[1].
C8_FailedBarcodePlateName ==
  Done("get_plate_name") =>
    LET fields == Split(args[1], "_")
    IN (~BarcodePattern(fields) /\ FailedBarcodePattern(fields))
         => ret = Return(<<"R", "S">> \o fields[1] \o fields[2])

\* C8 witness: "220304_172545_220304_175557" has been named "RS220304172545".
C8_Witness ==
  /\ Done("get_plate_name")
  /\ Split(args[1], "_") = << <<"2", "2", "0", "3", "0", "4">>, <<"1", "7", "2", "5", "4", "5">>,
                              <<"2", "2", "0", "3", "0", "4">>, <<"1", "7", "5", "5", "5", "7">> >>
  /\ ret = Return(<<"R", "S", "2", "2", "0", "3", "0", "4", "1", "7", "2", "5", "4", "5">>)

\* The plate name with the failed-barcode rule tried before the barcode rule.
PlateNameOtherOrder(plate_prefix) ==
  LET fields == Split(plate_prefix, "_")
  IN IF FailedBarcodePattern(fields) THEN <<"R", "S">> \o fields[1] \o fields[2]
     ELSE IF BarcodePattern(fields) THEN fields[1]
     ELSE plate_prefix

\* C9: for every plate prefix that matches neither the 3-field barcode
\* pattern nor the 4-field all-digit pattern the plate name is the raw
\* prefix, underscores included; no prefix matches both patterns, and the
\* name is the same with the rules tried in the other order.
C9_RawPrefixOtherwise ==
  Done("get_plate_name") =>
    LET fields == Split(args[1], "_")
    IN /\ (~BarcodePattern(fields) /\ ~FailedBarcodePattern(fields))
            => ret = Return(args[1])
       /\ ~(BarcodePattern(fields) /\ FailedBarcodePattern(fields))
       /\ ret = Return(PlateNameOtherOrder(args[1]))

\* C9 witness: "NAR005_21041_164828", three fields of which the second has
\* five digits, has been named by itself.
C9_Witness ==
  /\ Done("get_plate_name")
  /\ args[1] = <<"N", "A", "R", "0", "0", "5", "_", "2", "1", "0", "4", "1", "_",
                 "1", "6", "4", "8", "2", "8">>
  /\ ret = Return(args[1])

\* C10: parse_filename raises ValueError whenever the filename, directory and
\* extension removed, has fewer than 3 underscore-separated fields.
C10_TooFewFields ==
  Done("parse_filename") =>
    LET stem == PathStem(args[1])
    IN (stem.status # "ok" \/ Len(Split(stem.value, "_")) < 3)
         => ret = Raise("ValueError")

\* C10 witness: "B03_T1F2L3A04Z5C6.tif", a well and a well-formed metadata
\* token but no plate prefix, has been rejected with ValueError.
C10_Witness ==
  /\ Done("parse_filename")
  /\ args[1] = <<"B", "0", "3", "_", "T", "1", "F", "2", "L", "3", "A", "0", "4",
                 "Z", "5", "C", "6", ".", "t", "i", "f">>
  /\ ret = Raise("ValueError")

\* The underscore-separated fields of the filename of the call, directory
\* and extension removed.
StemFields == Split(PathStem(args[1]).value, "_")

\* A call of parse_filename has ended on a filename with at least 3 fields.
ParsedFields ==
  /\ Done("parse_filename")
  /\ PathStem(args[1]).status = "ok"
  /\ Len(StemFields) >= 3

\* C11 (as stated): for every filename that parse_filename accepts, "well" is
\* the second-to-last field of the stem, "plate_prefix" is the earlier fields
\* joined by "_", and "plate" is get_plate_name(plate_prefix).
C11_WellAndPlate ==
  (Done("parse_filename") /\ ret.status = "ok") =>
    LET n == Len(StemFields)
        plate_prefix == Join(SubSeq(StemFields, 1, n - 2), "_")
    IN /\ ret.value[KeyWell] = StemFields[n - 1]
       /\ ret.value[KeyPlatePrefix] = plate_prefix
       /\ ret.value[KeyPlate] = get_plate_name(plate_prefix).value

\* The number of maximal runs of the digits 0-9 in s.
NumDigitRuns(s) ==
  Cardinality({i \in 1..Len(s) :
                 s[i] \in AsciiDigits /\ (i = 1 \/ s[i - 1] \notin AsciiDigits)})

\* The token ends in a digit and holds exactly 6 digit runs.
SixPairs(token) ==
  /\ Len(token) > 0
  /\ token[Len(token)] \in AsciiDigits
  /\ NumDigitRuns(token) = 6

\* C12: parse_filename fails whenever the last underscore field ends in a
\* non-digit character or does not split into exactly 6 key/digit-run pairs.
C12_TokenShape ==
  (ParsedFields /\ ~SixPairs(StemFields[Len(StemFields)]))
    => ret = Raise("ValueError")

\* C12 witness: the token "T1F2L3A04Z5C6K7", seven pairs, has been rejected
\* with ValueError.
C12_Witness ==
  /\ ParsedFields
  /\ StemFields[Len(StemFields)]
       = <<"T", "1", "F", "2", "L", "3", "A", "0", "4", "Z", "5", "C", "6", "K", "7">>
  /\ ret = Raise("ValueError")

TaskRun == call = "apply_registration_to_ROI_tables"

\* The run has collected the tables of all acquisitions.
Collected == TaskRun /\ DOMAIN roi_tables # {}

\* The run is past the check of the ROI names, or was ended by it.
RoisChecked ==
  /\ Collected
  /\ args.reference_cycle \in DOMAIN roi_tables
  /\ pc \in {"min_max", "loop", "done"}

RoiNames(table) == {table.obs[r] : r \in 1..Len(table.obs)}

SameRoiSet(acq) ==
  RoiNames(roi_tables[acq]) = RoiNames(roi_tables[args.reference_cycle])

SameRoiOrder(acq) ==
  roi_tables[acq].obs = roi_tables[args.reference_cycle].obs

\* C14: once the tables are collected, the task fails with an error that
\* names an offending cycle whenever some cycle's set of ROI names differs
\* from the reference cycle's, and passes the check whenever all the sets are
\* equal, whatever the order of the rows.
C14_SameRoiSets ==
  RoisChecked =>
    IF \A acq \in DOMAIN roi_tables : SameRoiSet(acq)
      THEN pc # "done" \/ ret.status = "ok"
      ELSE /\ pc = "done"
           /\ ret.status = "ValueError"
           /\ "acq" \in DOMAIN ret.value
           /\ ~SameRoiSet(ret.value.acq)


\* The largest and the smallest value of a non-empty set of integers.
MaxOf(S) == CHOOSE m \in S : \A x \in S : m >= x

MinOf(S) == CHOOSE m \in S : \A x \in S : m <= x

\* The translation of a ROI along an axis in a data frame, by its name.
TranslationOf(df, roi, a) == df.values[IndexOf(df.index, roi, 1)][a]

\* A frame holds, for every ROI name and axis, a number equal to the largest
\* (smallest) translation of that ROI and axis over the frames of dfs.
IsMaxOver(frame, dfs) ==
  /\ frame.index = dfs[1].index
  /\ \A r \in 1..Len(frame.index) : \A a \in 1..3 :
       /\ ~frame.values[r][a].nan
       /\ Float(frame.values[r][a]) =
            MaxOf({TranslationOf(dfs[k], frame.index[r], a) : k \in 1..Len(dfs)})

IsMinOver(frame, dfs) ==
  /\ frame.index = dfs[1].index
  /\ \A r \in 1..Len(frame.index) : \A a \in 1..3 :
       /\ ~frame.values[r][a].nan
       /\ Float(frame.values[r][a]) =
            MinOf({TranslationOf(dfs[k], frame.index[r], a) : k \in 1..Len(dfs)})

\* The run has computed max_df and min_df.
MinMaxDone == TaskRun /\ pc \in {"loop", "done"} /\ DOMAIN max_df # {}

\* The translation frames of the collected tables, in the order of the
\* acquisitions.
CollectedFrames ==
  LET acqs == AcquisitionDict.value
  IN [k \in 1..Len(acqs) |-> TranslationFrame(roi_tables[acqs[k]])]

\* C15: calculate_min_max_across_dfs returns, for every ROI name and axis, the
\* maximum and the minimum of the translation over all the tables it is
\* given, with one table, with all translations negative or all positive;
\* the task calls it with the translations of all its acquisitions.
C15_MinMaxAcrossCycles ==
  /\ (Done("calculate_min_max_across_dfs") /\ Len(args[1]) > 0) =>
       /\ ret.status = "ok"
       /\ IsMaxOver(ret.value[1], args[1])
       /\ IsMinOver(ret.value[2], args[1])
  /\ MinMaxDone =>
       LET frames == CollectedFrames
       IN /\ IsMaxOver(max_df, frames)
          /\ IsMinOver(min_df, frames)

AllNegative(df) ==
  \A r \in 1..Len(df.values) : \A a \in 1..3 : df.values[r][a] < 0

\* Two tables of negative translations: the maximum and the minimum are
\* negative and differ.
C15_Witness ==
  /\ Done("calculate_min_max_across_dfs")
  /\ Len(args[1]) = 2
  /\ \A k \in 1..2 : AllNegative(args[1][k])
  /\ args[1][1] # args[1][2]
  /\ Float(ret.value[1].values[1][1]) = -2
  /\ Float(ret.value[2].values[1][1]) = -4


\* The row of a ROI in a table, by its name.
RowOf(table, roi) == table.rows[IndexOf(table.obs, roi, 1)]

\* The ROIs of the run: the index of the reference cycle's table.
Rois == roi_tables[args.reference_cycle].obs

\* The acquisitions whose registered table has been computed.
Registered == IF TaskRun THEN DOMAIN shifted_rois ELSE {}

\* C16: in the table computed for a cycle, for every ROI and axis, the new
\* position is the old position plus the maximum shift of that ROI and axis
\* minus the cycle's own translation, the new extent is the old extent minus
\* the maximum shift plus the minimum shift of that ROI and axis, and the
\* translation columns are those of the input.
C16_ShiftFormula ==
  \A acq \in Registered :
    /\ shifted_rois[acq].obs = roi_tables[acq].obs
    /\ \A r \in 1..Len(Rois) : \A a \in 1..3 :
         LET roi == Rois[r]
             old == RowOf(roi_tables[acq], roi)
             new == RowOf(shifted_rois[acq], roi)
             max_shift == Float(TranslationOf(max_df, roi, a))
             min_shift == Float(TranslationOf(min_df, roi, a))
         IN /\ new.pos[a] = old.pos[a] + max_shift - old.tr[a]
            /\ new.len[a] = old.len[a] - max_shift + min_shift
            /\ new.tr[a] = old.tr[a]

\* A cycle of three whose second ROI has been moved and shrunk along x by
\* shifts that differ from those of its first ROI.
C16_Witness ==
  /\ TaskRun
  /\ pc = "done"
  /\ Len(args.images) = 3
  /\ \E acq \in Registered :
       /\ Len(Rois) = 2
       /\ Loc(max_df, Rois[1])[3] # Loc(max_df, Rois[2])[3]
       /\ Loc(max_df, Rois[1])[2] # Loc(max_df, Rois[1])[3]
       /\ RowOf(shifted_rois[acq], Rois[2]).pos[3] # RowOf(roi_tables[acq], Rois[2]).pos[3]
       /\ RowOf(shifted_rois[acq], Rois[2]).len[3] < RowOf(roi_tables[acq], Rois[2]).len[3]
       /\ RowOf(shifted_rois[acq], Rois[2]).tr[3] # 0


\* C17: for every cycle, ROI and axis the new window starts at or after the
\* start of the cycle's original window and ends at or before its end.
C17_WindowInsideOriginal ==
  \A acq \in Registered :
    \A r \in 1..Len(Rois) : \A a \in 1..3 :
      LET old == RowOf(roi_tables[acq], Rois[r])
          new == RowOf(shifted_rois[acq], Rois[r])
      IN /\ new.pos[a] >= old.pos[a]
         /\ new.pos[a] + new.len[a] <= old.pos[a] + old.len[a]

\* A cycle whose translation lies strictly between the smallest and the
\* largest one: its window is cut at both ends.
C17_Witness ==
  /\ TaskRun
  /\ pc = "done"
  /\ ret.status = "ok"
  /\ \E acq \in Registered :
       LET old == RowOf(roi_tables[acq], Rois[1])
           new == RowOf(shifted_rois[acq], Rois[1])
       IN /\ new.pos[3] > old.pos[3]
          /\ new.pos[3] + new.len[3] < old.pos[3] + old.len[3]


\* The ROI has the same position and extent in the table of every cycle.
SameInEveryCycle(roi) ==
  \A acq1, acq2 \in DOMAIN roi_tables :
    /\ RowOf(roi_tables[acq1], roi).pos = RowOf(roi_tables[acq2], roi).pos
    /\ RowOf(roi_tables[acq1], roi).len = RowOf(roi_tables[acq2], roi).len

\* The two-cycle example: x-translations 0 and 5 on an x-extent of 100.
ExampleZeroFive ==
  /\ TaskRun
  /\ pc = "done"
  /\ ret.status = "ok"
  /\ DOMAIN roi_tables = {0, 1}
  /\ Rois = <<"FOV_1">>
  /\ {roi_tables[acq].rows[1].tr[3] : acq \in {0, 1}} = {0, 5}
  /\ \A acq \in {0, 1} : roi_tables[acq].rows[1].len[3] = 100

\* C18: a ROI with the same position and extent in every cycle loses the
\* same amount of extent, the maximum minus the minimum shift, in every
\* cycle, and its new position plus the cycle's own translation is the same
\* in every cycle; with x-translations 0 and 5 on an x-extent of 100 both
\* cycles end with the x-extent 95.
C18_SameSubRegion ==
  /\ \A acq1, acq2 \in Registered :
       \A r \in 1..Len(Rois) : \A a \in 1..3 :
         LET roi == Rois[r]
             old1 == RowOf(roi_tables[acq1], roi)
             new1 == RowOf(shifted_rois[acq1], roi)
             new2 == RowOf(shifted_rois[acq2], roi)
         IN SameInEveryCycle(roi) =>
              /\ old1.len[a] - new1.len[a] =
                   Float(TranslationOf(max_df, roi, a)) - Float(TranslationOf(min_df, roi, a))
              /\ new1.len[a] = new2.len[a]
              /\ new1.pos[a] + new1.tr[a] = new2.pos[a] + new2.tr[a]
  /\ ExampleZeroFive =>
       \A acq \in {0, 1} : shifted_rois[acq].rows[1].len[3] = 95

\* The example with the ROI at the same place in both cycles, and both
\* tables written with the x-extent 95.
C18_Witness ==
  /\ ExampleZeroFive
  /\ SameInEveryCycle("FOV_1")
  /\ \A acq \in {0, 1} : store[acq].tables[NewRoiTable].elem.rows[1].len[3] = 95


\* The tables as they were passed to the loop over the acquisitions: those
\* collected from the well as it was on disk before the run.
InputTables ==
  LET collected == CollectTables(args.disk, AcquisitionDict.value, args.roi_table,
                                 args.reference_cycle, 1, <<>>).value
  IN [acq \in DOMAIN collected |-> reset_origin(collected[acq])]

InputFrames ==
  LET inputs == InputTables
      acqs == AcquisitionDict.value
  IN [k \in 1..Len(acqs) |-> TranslationFrame(inputs[acqs[k]])]

\* C19: while and after the cycles are processed, the tables passed to
\* apply_registration_to_single_ROI_table, max_df and min_df are what they
\* were before the first call, and the table returned for a cycle is the one
\* computed from that cycle's input table alone, whichever cycles were
\* processed before it.
C19_InputsNotMutated ==
  MinMaxDone =>
    LET inputs == InputTables
        min_max == calculate_min_max_across_dfs(InputFrames).value
    IN /\ roi_tables = inputs
       /\ max_df = min_max[1]
       /\ min_df = min_max[2]
       /\ \A acq \in Registered :
            shifted_rois[acq] = ShiftRois(inputs[acq], max_df, min_df,
                                          inputs[args.reference_cycle].obs, 1)

\* Three cycles processed, each with a returned table that differs from the
\* table passed in.
C19_Witness ==
  /\ TaskRun
  /\ pc = "done"
  /\ ret.status = "ok"
  /\ Registered = {0, 1, 2}
  /\ \A acq \in Registered : shifted_rois[acq] # roi_tables[acq]


\* C20: after a successful run every acquisition holds the adjusted table
\* under the new name, that new table carries the attribute "type", and the
\* table roi_table and its attributes are as they were before the run.
C20_NewTableTagged ==
  (TaskRun /\ pc = "done" /\ ret.status = "ok") =>
    \A acq \in DOMAIN store :
      /\ NewRoiTable \in DOMAIN store[acq].tables
      /\ store[acq].tables[NewRoiTable].elem = shifted_rois[acq]
      /\ "type" \in DOMAIN store[acq].tables[NewRoiTable].attrs
      /\ store[acq].tables[args.roi_table] = args.disk[acq].tables[args.roi_table]


(***************************************************************************)
(* Properties of illumination_correction, checked under SpecIllumination.  *)
(***************************************************************************)

IllumRun == call = "illumination_correction"

\* The extents (z, y, x) of a window in pixels.
PixelExtents(indices) ==
  <<indices[2] - indices[1], indices[4] - indices[3], indices[6] - indices[5]>>

\* The call in progress has compared the sizes of its windows.
SizesChecked ==
  /\ IllumRun
  /\ Len(list_indices) > 0
  /\ pc \in {"load_corrections", "correct", "done"}

FailedInconsistentSizes ==
  /\ pc = "done"
  /\ ret.status = "Exception"
  /\ ret.value = "ERROR: inconsistent image sizes in list_indices"

\* Two windows of the call differ in their extent along one of the axes.
ExtentsDifferOn(axes) ==
  \E i, j \in 1..Len(list_indices) : \E a \in axes :
    PixelExtents(list_indices[i])[a] # PixelExtents(list_indices[j])[a]

IsRounded(k, n, d) == 2 * d * k - d <= 2 * n /\ 2 * n < 2 * d * k + d

\* The window of the ROI of a call of convert_ROI_table_to_indices at
\* another level.
WindowAtLevel(level) ==
  convert_ROI_table_to_indices(args[1], level, args[3], args[4])[1]

\* C22: every start is round(position / pixel size) and every end is
\* round((position + extent) / pixel size), with the pixel size of y and x
\* multiplied by coarsening_xy ** level and that of z unchanged; a ROI at the
\* origin of one level-0 pixel has the window (0, 1) on every axis at level
\* 0; at level 1 the extents along y and x are those of level 0 divided by
\* coarsening_xy within one pixel, and the extent along z is that of level 0
\* at every level.
C22_RoiToIndex ==
  Done("convert_ROI_table_to_indices") =>
    LET roi == args[1][1]
        level == args[2]
        coarsening_xy == args[3]
        pxl == args[4]
        window == ret.value[1]
        size == [a \in 1..3 |-> IF a = 1 THEN pxl[a] ELSE pxl[a] * Power(coarsening_xy, level)]
        extent == PixelExtents(window)
        extent_0 == PixelExtents(WindowAtLevel(0))
    IN /\ ret.status = "ok"
       /\ Len(ret.value) = 1
       /\ \A a \in 1..3 :
            /\ IsRounded(window[2 * a - 1], roi.pos[a], size[a])
            /\ IsRounded(window[2 * a], roi.pos[a] + roi.len[a], size[a])
       /\ (level = 0 /\ roi.pos = <<0, 0, 0>> /\ roi.len = pxl) =>
            window = <<0, 1, 0, 1, 0, 1>>
       /\ level = 1 =>
            \A a \in 2..3 :
              /\ coarsening_xy * extent[a] - extent_0[a] <= coarsening_xy
              /\ extent_0[a] - coarsening_xy * extent[a] <= coarsening_xy
       /\ extent[1] = extent_0[1]

\* A ROI of 3 pixels along x at level 0 and of 2 pixels at level 1, with
\* coarsening_xy = 2, and of 2 pixels along z at both levels.
C22_Witness ==
  /\ Done("convert_ROI_table_to_indices")
  /\ args[2] = 1
  /\ args[3] = 2
  /\ PixelExtents(WindowAtLevel(0))[3] = 3
  /\ PixelExtents(ret.value[1])[3] = 2
  /\ PixelExtents(ret.value[1])[1] = 2


\* C27: the caller's dictionary dict_corr is at every moment what it was
\* before the first call, and when the call for the first component has
\* succeeded the calls for the components that follow succeed too.
C27_DictCorrNotModified ==
  IllumRun =>
    /\ dict_corr = args.dict_corr
    /\ (pc = "done" /\ component_i > 1) => ret.status = "ok"

(***************************************************************************)
(* Properties of lib_channels.py, checked under SpecChannels.              *)
(***************************************************************************)

OmeroRun == call = "define_omero_channels"

\* The channel of position k of the list passed to define_omero_channels
\* has no colormap of its own.
Colourless(k) ==
  "colormap" \notin DOMAIN args.channels[k] \/ args.channels[k]["colormap"] = None

ColourlessUpTo(k) == Cardinality({j \in 1..k : Colourless(j)})

PaletteInPopOrder == <<"FFFF00", "FF00FF", "00FFFF">>

\* The colour of position k of one call: its own colormap, or the entry of
\* the palette of its rank among the channels without colormap, or gray.
ExpectedColour(k) ==
  IF ~Colourless(k) THEN args.channels[k]["colormap"]
  ELSE IF ColourlessUpTo(k) <= 3 THEN PaletteInPopOrder[ColourlessUpTo(k)]
  ELSE "808080"

\* C23: within one call of define_omero_channels the channels without a
\* colormap take "FFFF00", "FF00FF", "00FFFF" in this order and "808080"
\* after them; a channel with a colormap keeps it and leaves the palette as
\* it is, so that the palette has lost one entry per channel without
\* colormap.
C23_PaletteOrder ==
  OmeroRun /\ pc # "call" =>
    /\ \A k \in 1..Len(omero_channels) : omero_channels[k].color = ExpectedColour(k)
    /\ LET used == ColourlessUpTo(Len(omero_channels))
       IN Len(default_colormaps) = IF used <= 3 THEN 3 - used ELSE 0

C23_Witness ==
  /\ OmeroRun
  /\ pc = "done"
  /\ ret.status = "ok"
  /\ Len(ret.value) = 5
  /\ ~Colourless(2)
  /\ [k \in 1..5 |-> ret.value[k].color] =
       <<"FFFF00", "00FF00", "FF00FF", "00FFFF", "808080">>

\* C24 as stated: the palette is shared between the calls, so that a call
\* after the first starts its loop with the entries the calls before it
\* have left.
C24_PaletteShared ==
  OmeroRun /\ pc = "loop" /\ channel_i = 1 /\ Len(returned) > 0 =>
    LET used == Len(returned) * ColourlessUpTo(Len(args.channels))
    IN Len(default_colormaps) = IF used <= 3 THEN 3 - used ELSE 0

\* C24, amended: the palette belongs to the call.  Every call starts its
\* loop with the three entries, and the successive calls of a session with
\* the same channels return the same list, colours included.
C24_PalettePerCall ==
  OmeroRun =>
    /\ pc = "loop" /\ channel_i = 1 =>
         default_colormaps = <<"00FFFF", "FF00FF", "FFFF00">>
    /\ \A i, j \in 1..Len(returned) : returned[i] = returned[j]

C24_Witness ==
  /\ OmeroRun
  /\ pc = "done"
  /\ Len(returned) = 2
  /\ Len(returned[2]) = 2
  /\ Colourless(1) /\ Colourless(2)
  /\ returned[1][1].color = "FFFF00" /\ returned[2][1].color = "FFFF00"
  /\ returned[1][2].color = "FF00FF" /\ returned[2][2].color = "FF00FF"

GetChannelDone == call = "get_channel_from_list" /\ pc = "done"

\* Every channel of the list has the two keys, as the docstring requires.
ChannelsHaveKeys(chs) ==
  \A k \in 1..Len(chs) : {"label", "wavelength_id"} \subseteq DOMAIN chs[k]

\* The positions of the channels that have the label and the wavelength_id
\* that were given.
MatchingPositions(chs, label, wavelength_id) ==
  {k \in 1..Len(chs) :
     /\ Truthy(label) => chs[k]["label"] = label
     /\ Truthy(wavelength_id) => chs[k]["wavelength_id"] = wavelength_id}

\* C25: on a list of channels that have both keys, get_channel_from_list
\* returns a channel exactly when a label or a wavelength_id is given and
\* one channel alone matches; the channel returned is this one with its
\* position, counted from 0, as "index"; every other call raises
\* ValueError.
C25_SingleMatch ==
  GetChannelDone /\ ChannelsHaveKeys(args[1]) =>
    LET chs == args[1]
        given == Truthy(args[2]) \/ Truthy(args[3])
        matching == MatchingPositions(chs, args[2], args[3])
    IN IF given /\ Cardinality(matching) = 1
         THEN /\ ret.status = "ok"
              /\ \A k \in matching :
                   /\ ret.value["index"] = k - 1
                   /\ \A key \in DOMAIN chs[k] \ {"index"} : ret.value[key] = chs[k][key]
                   /\ DOMAIN ret.value = DOMAIN chs[k] \cup {"index"}
       ELSE ret.status = "ValueError"

C25_Witness ==
  /\ GetChannelDone
  /\ ChannelsHaveKeys(args[1])
  /\ Len(args[1]) = 3
  /\ Truthy(args[2]) /\ Truthy(args[3])
  /\ ret.status = "ok"
  /\ ret.value["index"] = 2

(***************************************************************************)
(* Properties of run_fractal_task, checked under SpecRunTask.              *)
(***************************************************************************)

TaskRunEnded ==
  /\ call = "run_fractal_task"
  /\ pc = "done"
  /\ args.json # Absent
  /\ args.metadata_out # Absent

ExistedAtStart == args.metadata_out \in DOMAIN args.files

C28_DecodedLengths ==
  (Done("_extract_row_col_from_well_id") /\ ret.status = "ok") =>
    LET row == ret.value[1]
        col == ret.value[2]
    IN /\ ValidRowCol(row, col)
       /\ get_filename_well_id(row, col) = Return(args[1])

\* C29: a result of parse_filename has six entries besides plate_prefix,
\* plate and well, none of them under the empty key, and its plate_prefix,
\* plate and well are those of the fields of the filename.
C29_SixMetadataEntries ==
  (Done("parse_filename") /\ ret.status = "ok") =>
    LET n == Len(StemFields)
        plate_prefix == Join(SubSeq(StemFields, 1, n - 2), "_")
        keys == DOMAIN ret.value
    IN /\ {KeyPlatePrefix, KeyPlate, KeyWell} \subseteq keys
       /\ Cardinality(keys \ {KeyPlatePrefix, KeyPlate, KeyWell}) = 6
       /\ <<>> \notin keys
       /\ ret.value[KeyWell] = StemFields[n - 1]
       /\ ret.value[KeyPlatePrefix] = plate_prefix
       /\ ret.value[KeyPlate] = get_plate_name(plate_prefix).value

\* C30: in every table computed for a cycle the extent of every ROI along
\* every axis is non-negative, whatever the translations of the cycles.
C30_NonNegativeExtents ==
  \A acq \in Registered :
    \A r \in 1..Len(shifted_rois[acq].rows) : \A a \in 1..3 :
      shifted_rois[acq].rows[r].len[a] >= 0

====
